---- MODULE Spec2Model ----
(***************************************************************************)
(* Verification model of esp32-can-multibackend.                           *)
(*                                                                         *)
(*  Spec        the interrupt-signalled producer/consumer pipeline of      *)
(*              examples/single/receive_interrupt_single.c over            *)
(*              mcp2515_single_receive (MCP2515 single backend)            *)
(*  SpecInit    mcp2515_single_init: mode switch, filters, mode re-apply,  *)
(*              and mcp2515_single_deinit                                  *)
(*  SpecBackend the TWAI adapter with its recovery check, and the send     *)
(*              path of the three backends selected at build time          *)
(*  SpecRouting the bundle registry and the routing of a target            *)
(*  SpecReceive the receive path of the three backends                     *)
(*  SpecTarget  can_target.h: packing and unpacking of a target            *)
(*  SpecFrame   conversion of can_message_t to and from the wire frames    *)
(*  SpecPoll    the polling loop of examples/multi/receive_poll_multi.c    *)
(*  SpecConsumer the pipeline of Spec without bus errors, with the         *)
(*              consumer task scheduled fairly                             *)
(*  SpecDispatch can_dispatch.c: the entry points and the adapter behind   *)
(*              them                                                       *)
(*  SpecBus     the SPI bus configuration handed to spi_bus_initialize     *)
(*  SpecMulti   the four operations of the index-based multi adapter       *)
(*  SpecStats   process_received_message of examples_utils.c               *)
(***************************************************************************)
EXTENDS Integers, Sequences, FiniteSets, TLC

\* ---- Bounds of the model ----
\* number of frames the bus delivers to the controller in one run
MaxFrames == 4
\* capacity of the application queue (RX_QUEUE_LENGTH is 64 in the source)
QueueCap == 2
\* receive buffers of the controller (RXB0, RXB1)
RxBufs == 2
\* number of bus error conditions (EFLG other than overrun) raised in one run
MaxBusErrors == 1
\* number of power-on resets of the controller in one run
MaxResets == 1
\* frames the TWAI driver can hold in its receive queue in the model
MaxDrvRx == 1
\* controller handles the multi adapter may create in one run
MaxHandles == 4
\* largest instance count handed to mcp2515_multi_init
MaxInstances == 2
\* devices in one bundle handed to canif_register_bundle
MaxBundleDevs == 3
\* devices on the default bus polled by receive_poll_multi.c
MaxPollDevs == 2
\* frames the buses deliver to the polled devices in one run
MaxPollFrames == 3
\* send and receive operations the adapter behind the dispatcher completes
MaxDispatched == 2
\* messages handed to process_received_message in one run
MaxStatMessages == 4

\* ---- Program constants ----
CAN_MAX_DLEN == 8

\* data length codes carried by the frames on the bus (9 stands for every
\* value above CAN_MAX_DLEN that the 4-bit DLC field can hold)
FrameDlcs == {8, 9}

NoMsg == [seq |-> 0, dlc |-> 0]

VARIABLES
    \* -- MCP2515 controller (hardware) --
    rxb,               \* frames held in the receive buffers, oldest first
    eflg,              \* EFLG: subset of {"RXOVR", "BUSERR"}
    errif,             \* CANINTF.ERRIF
    irq_latched,       \* a falling edge of INT is waiting for the ISR
    next_seq,          \* frames delivered by the bus so far
    bus_errors,        \* bus error conditions raised so far
    \* -- mcp2515_single_adapter.c --
    interrupt_pending, \* static volatile bool interrupt_pending
    spi_log,           \* controller accesses of the current receive call
    \* -- receive_interrupt_single.c --
    rx_pc,             \* position of can_rx_producer_task
    msg,               \* can_message_t message of the producer task
    received_any,      \* received_any of received_to_queue
    rx_queue,          \* rx_queue
    drop_events,       \* drop/reject events recorded by the producer
    \* -- history --
    read_log,          \* frames read out of the controller, in read order
    offered,           \* frames handed to xQueueSend, in order
    discarded,         \* frames read out of the controller and not returned
    rejected,          \* xQueueSend calls that returned errQUEUE_FULL
    processed,         \* frames given to process_received_message
    \* -- mcp2515_single_init and the controller it configures --
    init_pc,           \* position inside mcp2515_single_init, "idle" outside
    init_cfg,          \* argument cfg of the current or last call
    s_bundle,          \* static const mcp2515_bundle_config_t *s_bundle
    init_ret,          \* "true"/"false" returned by the last call, "none" before
    init_fail,         \* step at which the last call returned false
    attempt,           \* loop variable attempt of the two poll loops
    fidx,              \* loop variable i of the filter and mask loops
    init_log,          \* controller and driver calls of the current call
    reqop,             \* CANCTRL.REQOP, the requested mode
    opmod,             \* CANSTAT.OPMOD, the mode the controller is in
    caninte,           \* CANINTE has been programmed
    spi_bus_up,        \* the SPI bus of the host is initialised
    spi_dev_added,     \* the device is attached to the SPI bus
    isr_added,         \* isr_handler is registered for the INT pin
    resets,            \* power-on resets of the controller so far
    \* -- mcp2515_single_deinit and what it releases --
    isr_service,       \* the GPIO ISR service is installed
    spi_handle,        \* MCP2515_Object->spi: "null", "valid" or "stale"
                       \* (the device it named has been removed)
    deinit_ret,        \* result of mcp2515_single_deinit while it is the
                       \* last call: "true"/"false", "none" otherwise
    deinit_log,        \* library and driver calls of the last deinit
    retry_of,          \* step at which the init call before the current
                       \* one failed, "none" if it did not fail or a
                       \* deinit came between
    \* -- backend selected at build time, TWAI adapter, send paths --
    backend,           \* CONFIG_CAN_BACKEND_*
    twai_state,        \* state of the TWAI driver
    twai_config,       \* static twai_backend_config_t twai_config (timeouts)
    twai_rxq,          \* frames waiting in the receive queue of the driver
    in_msg,            \* buffer the caller hands to receive
    merrf,             \* CANINTF.MERRF of the MCP2515 (single backend)
    g_alloc,           \* g_handles != NULL
    g_handles,         \* g_handles[0..]: handle ids, 0 for NULL
    g_count,           \* g_count
    mcp_live,          \* handles created and not destroyed
    next_handle,       \* handles created so far
    call_log,          \* driver and library calls made by the last API call
    last_call,         \* the last API call: operation, input, result
    mcp_rx,            \* frames waiting in each MCP2515 of the multi adapter
    call_hist,         \* last send/receive: index argument, frames that were
                       \* pending in the addressed controller, frame taken
    \* -- registry and id-based routing of mcp2515_multi_if.h --
    multi_api,         \* interface the application is built on: "canif" or
                       \* "adapter" (mcp2515_multi_adapter.h)
    registry,          \* registered buses in registration order
    reg_before,        \* registry before the last canif_* call
    reg_call,          \* the last canif_* call: operation, arguments, result
    dev_ops,           \* adapter operations the last canif_* call invoked
    \* -- can_target_* helpers applied to one input --
    tgt_pc,            \* "ids"/"target" before, then "packed"/"split", "done"
    tgt_in,            \* the input: bus id and device id, or a target
    tgt_out,           \* the values computed from it
    \* -- frame conversions of the adapters applied to one input --
    frm_kind,          \* adapter: "multi", "twai" or "single"
    frm_pc,            \* "msg" -> "built" -> "round", or "wire" -> "filled"
    frm_in,            \* the message handed to send
    frm_stack,         \* content of the uninitialised data bytes of the
                       \* frame local to send
    frm_wire,          \* the frame of the controller or driver
    frm_out,           \* the buffer the caller hands to receive
    \* -- receive_poll_multi.c --
    poll_pc,           \* position of app_main: "start", "for", "sleep"
    poll_devs,         \* devices registered on the default bus
    poll_n,            \* n
    poll_i,            \* i
    poll_rx,           \* frames waiting in the controller of each device
    poll_arrived,      \* frames delivered by the buses so far
    poll_log,          \* polls of the current pass: <<index, frames taken>>
    poll_delivered,    \* frames given to process_received_message_multi
    \* -- can_dispatch.c --
    dsp_call,          \* the last can_twai_* call: entry point and argument
    dsp_log,           \* adapter operations the call invoked: <<name, arg>>
    dsp_ret,           \* what the call returned: "none", "true", "false"
    adp_state,         \* state of the adapter behind the dispatcher
    adp_ret,           \* what the last adapter operation returned
    adp_after,         \* state of the adapter when that operation returned
    \* -- SPI bus set-up of mcp2515_single_init applied to one input --
    bus_pc,            \* "cfg" -> "mapped" -> "initialized" or "rejected"
    bus_cfg,           \* the caller's mcp_spi_bus_config_t (s_bundle->bus)
    idf_bus_cfg,       \* spi_bus_config_t idf_bus_cfg, a local without
                       \* initialiser
    bus_host,          \* spi_host_device_t host
    bus_dma_chan,      \* int dma_chan
    spi_init_args,     \* arguments spi_bus_initialize was called with
    \* -- history of the handles of the multi adapter --
    init_owned,        \* handles created by the last mcp2515_multi_init that
                       \* returned true
    destroy_log,       \* handles given to MCP2515_Destroy, in call order
    \* -- examples_utils.c: statistics of process_received_message --
    count_of_messages_for_log,
    seq_rx_count,
    seq_ok_in_order,
    seq_lost,
    seq_out_of_order_or_dup,
    seq_start_time_us,
    expected_heartbeat,
    timer_us,          \* esp_timer_get_time(): microseconds since boot
    stat_last,         \* the message of the last call
    stat_seen,         \* TEST_MSG_ID frames processed since the last reset of
                       \* the window (since start for the first window)
    stat_report        \* the last statistics printed at an END_TAG frame

rxVars == <<rxb, eflg, errif, irq_latched, next_seq, bus_errors,
            interrupt_pending, spi_log, rx_pc, msg, received_any, rx_queue,
            drop_events, read_log, offered, discarded, rejected, processed>>

closeVars == <<isr_service, spi_handle, deinit_ret, deinit_log, retry_of>>

initVars == <<init_pc, init_cfg, s_bundle, init_ret, init_fail, attempt, fidx,
              init_log, reqop, opmod, caninte, spi_bus_up, spi_dev_added,
              isr_added, resets, closeVars>>

beVars == <<backend, twai_state, twai_config, twai_rxq, in_msg, merrf, g_alloc,
            g_handles, g_count, mcp_live, next_handle, call_log, last_call,
            mcp_rx, call_hist>>

regVars == <<multi_api, registry, reg_before, reg_call, dev_ops>>

tgtVars == <<tgt_pc, tgt_in, tgt_out>>

frmVars == <<frm_kind, frm_pc, frm_in, frm_stack, frm_wire, frm_out>>

pollVars == <<poll_pc, poll_devs, poll_n, poll_i, poll_rx, poll_arrived,
              poll_log, poll_delivered>>

dspVars == <<dsp_call, dsp_log, dsp_ret, adp_state, adp_ret, adp_after>>

busVars == <<bus_pc, bus_cfg, idf_bus_cfg, bus_host, bus_dma_chan,
             spi_init_args>>

ownVars == <<init_owned, destroy_log>>

statVars == <<count_of_messages_for_log, seq_rx_count, seq_ok_in_order,
              seq_lost, seq_out_of_order_or_dup, seq_start_time_us,
              expected_heartbeat, timer_us, stat_last, stat_seen,
              stat_report>>

extVars == <<dspVars, busVars, ownVars, statVars>>

vars == <<rxVars, initVars, beVars, regVars, tgtVars, pollVars, frmVars,
         extVars>>

\* ---------------------------------------------------------------------
\* Helpers
\* ---------------------------------------------------------------------
RECURSIVE IsSubseq(_, _)
\* s is a subsequence of t (order kept, elements of t may be skipped)
IsSubseq(s, t) ==
    IF s = <<>> THEN TRUE
    ELSE IF t = <<>> THEN FALSE
    ELSE IF Head(s) = Head(t) THEN IsSubseq(Tail(s), Tail(t))
    ELSE IsSubseq(s, Tail(t))

Range(s) == {s[i] : i \in 1..Len(s)}

NoDup(s) == \A i, j \in 1..Len(s) : s[i] = s[j] => i = j

Prefix(s, n) == SubSeq(s, 1, IF n < Len(s) THEN n ELSE Len(s))

\* ---------------------------------------------------------------------
\* MCP2515 controller as seen through the library calls of the adapter
\* ---------------------------------------------------------------------
\* level of the INT pin: low while an enabled CANINTF flag is set
\* (CANINTE = RX0IF | RX1IF | ERRIF)
IntLow(b, e) == b /= <<>> \/ e

\* MCP2515_checkReceive(): a receive buffer holds a frame
MCP2515_checkReceive == rxb /= <<>>

\* MCP2515_checkError(): EFLG has an error bit set
MCP2515_checkError == eflg /= {}

\* the bus delivers one frame, with a data length code out of dlcs, to the
\* controller
FrameArrival(dlcs) ==
    /\ next_seq < MaxFrames
    /\ \E d \in dlcs :
        LET f == [seq |-> next_seq + 1, dlc |-> d] IN
        /\ next_seq' = next_seq + 1
        /\ IF Len(rxb) < RxBufs
             THEN /\ rxb' = Append(rxb, f)
                  /\ UNCHANGED <<eflg, errif>>
             ELSE /\ eflg' = eflg \cup {"RXOVR"}
                  /\ errif' = TRUE
                  /\ UNCHANGED rxb
        /\ irq_latched' = (irq_latched \/ (~IntLow(rxb, errif) /\ IntLow(rxb', errif')))
    /\ UNCHANGED <<initVars, beVars, regVars, tgtVars, pollVars, frmVars, extVars>>
    /\ UNCHANGED <<bus_errors, interrupt_pending, spi_log, rx_pc, msg,
                   received_any, rx_queue, drop_events, read_log, offered,
                   discarded, rejected, processed>>

FrameArrives == FrameArrival(FrameDlcs)

\* a bus on which every frame has a valid data length code
FrameArrivesValid == FrameArrival({CAN_MAX_DLEN})

\* the error counters of the controller cross a limit (error passive, ...)
BusErrorRaised ==
    /\ bus_errors < MaxBusErrors
    /\ "BUSERR" \notin eflg
    /\ bus_errors' = bus_errors + 1
    /\ eflg' = eflg \cup {"BUSERR"}
    /\ errif' = TRUE
    /\ irq_latched' = (irq_latched \/ ~IntLow(rxb, errif))
    /\ UNCHANGED <<initVars, beVars, regVars, tgtVars, pollVars, frmVars, extVars>>
    /\ UNCHANGED <<rxb, next_seq, interrupt_pending, spi_log, rx_pc, msg,
                   received_any, rx_queue, drop_events, read_log, offered,
                   discarded, rejected, processed>>

\* the error counters fall back below the limit
BusErrorGone ==
    /\ "BUSERR" \in eflg
    /\ eflg' = eflg \ {"BUSERR"}
    /\ UNCHANGED <<initVars, beVars, regVars, tgtVars, pollVars, frmVars, extVars>>
    /\ UNCHANGED <<rxb, errif, irq_latched, next_seq, bus_errors,
                   interrupt_pending, spi_log, rx_pc, msg, received_any,
                   rx_queue, drop_events, read_log, offered, discarded,
                   rejected, processed>>

\* ---------------------------------------------------------------------
\* mcp2515_single_adapter.c
\* ---------------------------------------------------------------------
\* an interrupt handler that fetches the frame itself
isr_handler_reads ==
    /\ irq_latched
    /\ irq_latched' = FALSE
    /\ interrupt_pending' = TRUE
    /\ rxb' = IF rxb = <<>> THEN rxb ELSE Tail(rxb)
    /\ spi_log' = Append(spi_log, "readMessage")
    /\ UNCHANGED <<initVars, beVars, regVars, tgtVars, pollVars, frmVars, extVars>>
    /\ UNCHANGED <<eflg, errif, next_seq, bus_errors, rx_pc, msg,
                   received_any, rx_queue, drop_events, read_log, offered,
                   discarded, rejected, processed>>

\* isr_handler: runs on a falling edge of INT
isr_handler ==
    /\ irq_latched
    /\ irq_latched' = FALSE
    /\ interrupt_pending' = TRUE
    /\ UNCHANGED <<initVars, beVars, regVars, tgtVars, pollVars, frmVars, extVars>>
    /\ UNCHANGED <<rxb, eflg, errif, next_seq, bus_errors, spi_log, rx_pc, msg,
                   received_any, rx_queue, drop_events, read_log, offered,
                   discarded, rejected, processed>>

\* positions of the producer task inside mcp2515_single_receive
ReceivePcs == {"recv_entry", "recv_error", "recv_errclr", "recv_read",
               "recv_clrint", "recv_drain", "recv_drainrd", "recv_done"}

\* an entry test that trusts the flag alone
receive_entry_flag_only ==
    /\ rx_pc = "recv_entry"
    /\ spi_log' = <<>>
    /\ rx_pc' = IF interrupt_pending THEN "recv_error" ELSE "loop_exit"
    /\ UNCHANGED <<initVars, beVars, regVars, tgtVars, pollVars, frmVars, extVars>>
    /\ UNCHANGED <<rxb, eflg, errif, irq_latched, next_seq, bus_errors,
                   interrupt_pending, msg, received_any, rx_queue, drop_events,
                   read_log, offered, discarded, rejected, processed>>

\* if (!interrupt_pending && !MCP2515_checkReceive()) return false;
receive_entry ==
    /\ rx_pc = "recv_entry"
    /\ IF interrupt_pending
         THEN /\ spi_log' = <<>>
              /\ rx_pc' = "recv_error"
         ELSE /\ spi_log' = <<"checkReceive">>
              /\ rx_pc' = IF MCP2515_checkReceive THEN "recv_error" ELSE "loop_exit"
    /\ UNCHANGED <<initVars, beVars, regVars, tgtVars, pollVars, frmVars, extVars>>
    /\ UNCHANGED <<rxb, eflg, errif, irq_latched, next_seq, bus_errors,
                   interrupt_pending, msg, received_any, rx_queue, drop_events,
                   read_log, offered, discarded, rejected, processed>>

\* if (MCP2515_checkError()) ...
receive_check_error ==
    /\ rx_pc = "recv_error"
    /\ spi_log' = Append(spi_log, "checkError")
    /\ rx_pc' = IF MCP2515_checkError THEN "recv_errclr" ELSE "recv_read"
    /\ UNCHANGED <<initVars, beVars, regVars, tgtVars, pollVars, frmVars, extVars>>
    /\ UNCHANGED <<rxb, eflg, errif, irq_latched, next_seq, bus_errors,
                   interrupt_pending, msg, received_any, rx_queue, drop_events,
                   read_log, offered, discarded, rejected, processed>>

\* an error path that clears the flags of the controller and leaves
\* interrupt_pending set
receive_clear_error_keeps_pending ==
    /\ rx_pc = "recv_errclr"
    /\ IF "RXOVR" \in eflg
         THEN /\ spi_log' = spi_log \o <<"getErrorFlags", "clearRXnOVR">>
              /\ eflg' = eflg \ {"RXOVR"}
              /\ errif' = FALSE
              /\ rxb' = <<>>
         ELSE /\ spi_log' = spi_log \o <<"getErrorFlags", "clearERRIF">>
              /\ errif' = FALSE
              /\ UNCHANGED <<eflg, rxb>>
    /\ rx_pc' = "loop_exit"
    /\ UNCHANGED <<initVars, beVars, regVars, tgtVars, pollVars, frmVars, extVars>>
    /\ UNCHANGED <<irq_latched, next_seq, bus_errors, msg, received_any,
                   rx_queue, drop_events, read_log, offered, discarded,
                   rejected, processed, interrupt_pending>>

\* eflg = MCP2515_getErrorFlags(); clear RXnOVR or ERRIF;
\* interrupt_pending = false; return false;
\* MCP2515_clearRXnOVR clears the overrun bits and every CANINTF flag, which
\* releases the receive buffers; MCP2515_clearERRIF clears CANINTF.ERRIF only
receive_clear_error ==
    /\ rx_pc = "recv_errclr"
    /\ IF "RXOVR" \in eflg
         THEN /\ spi_log' = spi_log \o <<"getErrorFlags", "clearRXnOVR">>
              /\ eflg' = eflg \ {"RXOVR"}
              /\ errif' = FALSE
              /\ rxb' = <<>>
         ELSE /\ spi_log' = spi_log \o <<"getErrorFlags", "clearERRIF">>
              /\ errif' = FALSE
              /\ UNCHANGED <<eflg, rxb>>
    /\ interrupt_pending' = FALSE
    /\ rx_pc' = "loop_exit"
    /\ UNCHANGED <<initVars, beVars, regVars, tgtVars, pollVars, frmVars, extVars>>
    /\ UNCHANGED <<irq_latched, next_seq, bus_errors, msg, received_any,
                   rx_queue, drop_events, read_log, offered, discarded,
                   rejected, processed>>

\* ret = MCP2515_readMessageAfterStatCheck(frame); dlc check; copy to caller
receive_read ==
    /\ rx_pc = "recv_read"
    /\ spi_log' = Append(spi_log, "readMessage")
    /\ IF rxb = <<>>
         THEN \* ERROR_NOMSG
              /\ rx_pc' = "recv_clrint"
              /\ UNCHANGED <<rxb, msg, read_log, discarded>>
         ELSE /\ rxb' = Tail(rxb)
              /\ read_log' = Append(read_log, Head(rxb))
              /\ IF Head(rxb).dlc > CAN_MAX_DLEN
                   THEN /\ rx_pc' = "loop_exit"
                        /\ discarded' = Append(discarded, Head(rxb))
                        /\ UNCHANGED msg
                   ELSE /\ rx_pc' = "recv_drain"
                        /\ msg' = Head(rxb)
                        /\ UNCHANGED discarded
    /\ UNCHANGED <<initVars, beVars, regVars, tgtVars, pollVars, frmVars, extVars>>
    /\ UNCHANGED <<eflg, errif, irq_latched, next_seq, bus_errors,
                   interrupt_pending, received_any, rx_queue, drop_events,
                   offered, rejected, processed>>

\* MCP2515_clearInterrupts(); interrupt_pending = false; return false;
receive_clear_interrupts ==
    /\ rx_pc = "recv_clrint"
    /\ spi_log' = Append(spi_log, "clearInterrupts")
    /\ rxb' = <<>>
    /\ errif' = FALSE
    /\ interrupt_pending' = FALSE
    /\ rx_pc' = "loop_exit"
    /\ UNCHANGED <<initVars, beVars, regVars, tgtVars, pollVars, frmVars, extVars>>
    /\ UNCHANGED <<eflg, irq_latched, next_seq, bus_errors, msg, received_any,
                   rx_queue, drop_events, read_log, offered, discarded,
                   rejected, processed>>

\* while (MCP2515_checkReceive()) ...
receive_drain_check ==
    /\ rx_pc = "recv_drain"
    /\ spi_log' = Append(spi_log, "checkReceive")
    /\ rx_pc' = IF MCP2515_checkReceive THEN "recv_drainrd" ELSE "recv_done"
    /\ UNCHANGED <<initVars, beVars, regVars, tgtVars, pollVars, frmVars, extVars>>
    /\ UNCHANGED <<rxb, eflg, errif, irq_latched, next_seq, bus_errors,
                   interrupt_pending, msg, received_any, rx_queue, drop_events,
                   read_log, offered, discarded, rejected, processed>>

\* CAN_FRAME_t drain; if (MCP2515_readMessageAfterStatCheck(drain) != ERROR_OK) break;
receive_drain_read ==
    /\ rx_pc = "recv_drainrd"
    /\ spi_log' = Append(spi_log, "readMessage")
    /\ IF rxb = <<>>
         THEN /\ rx_pc' = "recv_done"
              /\ UNCHANGED <<rxb, read_log, discarded>>
         ELSE /\ rxb' = Tail(rxb)
              /\ read_log' = Append(read_log, Head(rxb))
              /\ discarded' = Append(discarded, Head(rxb))
              /\ rx_pc' = "recv_drain"
    /\ UNCHANGED <<initVars, beVars, regVars, tgtVars, pollVars, frmVars, extVars>>
    /\ UNCHANGED <<eflg, errif, irq_latched, next_seq, bus_errors,
                   interrupt_pending, msg, received_any, rx_queue, drop_events,
                   offered, rejected, processed>>

\* interrupt_pending = false; return true;
receive_done ==
    /\ rx_pc = "recv_done"
    /\ interrupt_pending' = FALSE
    /\ rx_pc' = "enqueue"
    /\ UNCHANGED <<initVars, beVars, regVars, tgtVars, pollVars, frmVars, extVars>>
    /\ UNCHANGED <<rxb, eflg, errif, irq_latched, next_seq, bus_errors,
                   spi_log, msg, received_any, rx_queue, drop_events, read_log,
                   offered, discarded, rejected, processed>>

\* ---------------------------------------------------------------------
\* receive_interrupt_single.c
\* ---------------------------------------------------------------------
\* a queue that inserts at the front
xQueueSend_front(q, m) ==
    IF Len(q) < QueueCap THEN [q |-> <<m>> \o q, ok |-> TRUE]
    ELSE [q |-> q, ok |-> FALSE]

\* a queue that overwrites its oldest entry when full
xQueueSend_overwrite(q, m) ==
    IF Len(q) < QueueCap THEN [q |-> Append(q, m), ok |-> TRUE]
    ELSE [q |-> Append(Tail(q), m), ok |-> TRUE]

\* xQueueSend(queue, item, 0): append when there is room, otherwise
\* return errQUEUE_FULL at once
xQueueSend(q, m) ==
    IF Len(q) < QueueCap THEN [q |-> Append(q, m), ok |-> TRUE]
    ELSE [q |-> q, ok |-> FALSE]

\* (void)xQueueSend(rx_queue, msg, 0); received_any = true;
producer_enqueue ==
    /\ rx_pc = "enqueue"
    /\ LET r == xQueueSend(rx_queue, msg) IN
        /\ rx_queue' = r.q
        /\ rejected' = IF r.ok THEN rejected ELSE rejected + 1
    /\ offered' = Append(offered, msg)
    /\ received_any' = TRUE
    /\ rx_pc' = "recv_entry"
    /\ UNCHANGED <<initVars, beVars, regVars, tgtVars, pollVars, frmVars, extVars>>
    /\ UNCHANGED <<rxb, eflg, errif, irq_latched, next_seq, bus_errors,
                   interrupt_pending, spi_log, msg, drop_events, read_log,
                   discarded, processed>>

\* if (!received_any) sleep_ms_min_ticks(1); then the task loop calls
\* received_to_queue again
producer_yield ==
    /\ rx_pc = "loop_exit"
    /\ received_any' = FALSE
    /\ rx_pc' = "recv_entry"
    /\ UNCHANGED <<initVars, beVars, regVars, tgtVars, pollVars, frmVars, extVars>>
    /\ UNCHANGED <<rxb, eflg, errif, irq_latched, next_seq, bus_errors,
                   interrupt_pending, spi_log, msg, rx_queue, drop_events,
                   read_log, offered, discarded, rejected, processed>>

\* a consumer that takes a frame off the queue and does not process it
can_rx_consumer_task_drops ==
    /\ rx_queue /= <<>>
    /\ rx_queue' = Tail(rx_queue)
    /\ UNCHANGED <<initVars, beVars, regVars, tgtVars, pollVars, frmVars, extVars>>
    /\ UNCHANGED <<rxb, eflg, errif, irq_latched, next_seq, bus_errors,
                   interrupt_pending, spi_log, rx_pc, msg, received_any,
                   drop_events, read_log, offered, discarded, rejected,
                   processed>>

\* xQueueReceive(rx_queue, &message, portMAX_DELAY); process_received_message
can_rx_consumer_task ==
    /\ rx_queue /= <<>>
    /\ rx_queue' = Tail(rx_queue)
    /\ processed' = Append(processed, Head(rx_queue))
    /\ UNCHANGED <<initVars, beVars, regVars, tgtVars, pollVars, frmVars, extVars>>
    /\ UNCHANGED <<rxb, eflg, errif, irq_latched, next_seq, bus_errors,
                   interrupt_pending, spi_log, rx_pc, msg, received_any,
                   drop_events, read_log, offered, discarded, rejected>>

\* =====================================================================
\* mcp2515_single_init (mcp2515_single_adapter.c) and the controller's
\* mode register
\* =====================================================================
\* CANCTRL_REQOP_* values written to CANCTRL; CANSTAT carries the mode in the
\* same three bits (7..5)
CANCTRL_REQOP == [NORMAL |-> 0, LOOPBACK |-> 64, CONFIG |-> 128]

\* (reg >> 5) & 0x07
ModeBits(reg) == (reg \div 32) % 8

\* MCP2515_readRegister(MCP_CANSTAT): OPMOD in bits 7..5, ICOD bits left 0
ReadCANSTAT == opmod * 32

\* number of polls of each mode-switch loop: attempt < 10
ModePollAttempts_eleven == 10 + 1

ModePollAttempts == 10

\* cfg == NULL (s_bundle == NULL)
NullCfg == [null |-> TRUE, device_count |-> 0, use_loopback |-> FALSE,
            manage_bus_lifetime |-> FALSE]

\* the bundle configurations handed to init
CfgInputs ==
    {NullCfg} \cup [null : {FALSE}, device_count : {0, 1},
                     use_loopback : BOOLEAN, manage_bus_lifetime : BOOLEAN]

\* target_mode of the configuration (lines 192-202)
TargetMode(c) ==
    IF c.use_loopback THEN CANCTRL_REQOP.LOOPBACK ELSE CANCTRL_REQOP.NORMAL

InitReturn(ret, why) ==
    /\ init_pc' = "idle"
    /\ init_ret' = ret
    /\ init_fail' = why

\* the controller reaches the mode requested in CANCTRL
ControllerSettles ==
    /\ opmod /= ModeBits(reqop)
    /\ opmod' = ModeBits(reqop)
    /\ UNCHANGED <<rxVars, beVars, regVars, tgtVars, pollVars, frmVars, closeVars, extVars>>
    /\ UNCHANGED <<init_pc, init_cfg, s_bundle, init_ret, init_fail, attempt,
                   fidx, init_log, reqop, caninte, spi_bus_up, spi_dev_added,
                   isr_added, resets>>

\* the controller goes through a power-on reset: configuration mode
ControllerResets ==
    /\ resets < MaxResets
    /\ resets' = resets + 1
    /\ reqop' = CANCTRL_REQOP.CONFIG
    /\ opmod' = ModeBits(CANCTRL_REQOP.CONFIG)
    /\ caninte' = FALSE
    /\ UNCHANGED <<rxVars, beVars, regVars, tgtVars, pollVars, frmVars, closeVars, extVars>>
    /\ UNCHANGED <<init_pc, init_cfg, s_bundle, init_ret, init_fail, attempt,
                   fidx, init_log, spi_bus_up, spi_dev_added, isr_added>>

\* lines 108-128: argument check, s_bundle = cfg, MCP2515_init()
mcp2515_single_init ==
    /\ init_pc = "idle"
    /\ \E c \in CfgInputs :
        /\ init_cfg' = c
        /\ attempt' = 0
        /\ fidx' = 0
        /\ retry_of' = IF deinit_ret = "none" /\ init_ret = "false"
                         THEN init_fail ELSE "none"
        /\ deinit_ret' = "none"
        /\ IF c.null \/ c.device_count < 1
             THEN /\ InitReturn("false", "config")
                  /\ init_log' = <<>>
                  /\ UNCHANGED s_bundle
             ELSE /\ s_bundle' = c
                  /\ init_log' = << <<"MCP2515_init", 0, 0>> >>
                  /\ \E ok \in BOOLEAN :
                        IF ok THEN /\ init_pc' = "spi"
                                   /\ init_ret' = "none"
                                   /\ init_fail' = "none"
                        ELSE InitReturn("false", "chip_init")
    /\ UNCHANGED <<rxVars, beVars, regVars, tgtVars, pollVars, frmVars, extVars>>
    /\ UNCHANGED <<reqop, opmod, caninte, spi_bus_up, spi_dev_added, isr_added,
                   resets, isr_service, spi_handle, deinit_log>>

\* lines 140-161: spi_bus_initialize, spi_bus_add_device
init_spi ==
    /\ init_pc = "spi"
    /\ IF spi_bus_up
         THEN \* ESP_ERR_INVALID_STATE: the host is already in use
              /\ InitReturn("false", "spi_bus")
              /\ init_log' = Append(init_log, <<"spi_bus_initialize", 0, 0>>)
              /\ UNCHANGED <<spi_bus_up, spi_dev_added, spi_handle>>
         ELSE /\ spi_bus_up' = TRUE
              /\ init_log' = init_log \o << <<"spi_bus_initialize", 0, 1>>,
                                            <<"spi_bus_add_device", 0, 0>> >>
              /\ \E ok \in BOOLEAN :
                    IF ok THEN /\ spi_dev_added' = TRUE
                               /\ spi_handle' = "valid"
                               /\ init_pc' = "reset"
                               /\ UNCHANGED <<init_ret, init_fail>>
                    ELSE /\ InitReturn("false", "spi_dev")
                         /\ UNCHANGED <<spi_dev_added, spi_handle>>
    /\ UNCHANGED <<rxVars, beVars, regVars, tgtVars, pollVars, frmVars, extVars>>
    /\ UNCHANGED <<isr_service, deinit_ret, deinit_log, retry_of>>
    /\ UNCHANGED <<init_cfg, s_bundle, attempt, fidx, reqop, opmod, caninte,
                   isr_added, resets>>

\* lines 163-177: MCP2515_reset, MCP2515_setBitrate
init_reset_bitrate ==
    /\ init_pc = "reset"
    /\ reqop' = CANCTRL_REQOP.CONFIG
    /\ opmod' = ModeBits(CANCTRL_REQOP.CONFIG)
    /\ caninte' = FALSE
    /\ init_log' = init_log \o << <<"MCP2515_reset", 0, 0>>,
                                  <<"MCP2515_setBitrate", 0, 0>> >>
    /\ \E ok \in BOOLEAN :
          IF ok THEN /\ init_pc' = "request"
                     /\ UNCHANGED <<init_ret, init_fail>>
          ELSE InitReturn("false", "bitrate")
    /\ UNCHANGED <<rxVars, beVars, regVars, tgtVars, pollVars, frmVars, closeVars, extVars>>
    /\ UNCHANGED <<init_cfg, s_bundle, attempt, fidx, spi_bus_up,
                   spi_dev_added, isr_added, resets>>

\* lines 186-221: MCP2515_modifyRegister(MCP_CANCTRL, CANCTRL_REQOP, target_mode)
init_request_mode ==
    /\ init_pc = "request"
    /\ reqop' = TargetMode(s_bundle)
    /\ init_log' = Append(init_log, <<"modifyCANCTRL", "first", TargetMode(s_bundle)>>)
    /\ attempt' = 0
    /\ init_pc' = "poll1"
    /\ UNCHANGED <<rxVars, beVars, regVars, tgtVars, pollVars, frmVars, closeVars, extVars>>
    /\ UNCHANGED <<init_cfg, s_bundle, init_ret, init_fail, fidx, opmod,
                   caninte, spi_bus_up, spi_dev_added, isr_added, resets>>

\* lines 222-265: one iteration of the first poll loop, and the return after it
init_poll_mode ==
    /\ init_pc = "poll1"
    /\ LET current_mode == ModeBits(ReadCANSTAT)
           requested_mode == ModeBits(TargetMode(s_bundle)) IN
        /\ init_log' = Append(init_log, <<"readCANSTAT", "poll1", current_mode>>)
        /\ IF current_mode = requested_mode
             THEN /\ init_pc' = "stable"
                  /\ UNCHANGED <<attempt, init_ret, init_fail>>
             ELSE /\ attempt' = attempt + 1
                  /\ IF attempt + 1 < ModePollAttempts
                       THEN UNCHANGED <<init_pc, init_ret, init_fail>>
                       ELSE InitReturn("false", "mode_switch")
    /\ UNCHANGED <<rxVars, beVars, regVars, tgtVars, pollVars, frmVars, closeVars, extVars>>
    /\ UNCHANGED <<init_cfg, s_bundle, fidx, reqop, opmod, caninte,
                   spi_bus_up, spi_dev_added, isr_added, resets>>

\* lines 270-285: stability read of CANSTAT, then CANINTE
init_stability ==
    /\ init_pc = "stable"
    /\ LET final_mode == ModeBits(ReadCANSTAT) IN
        IF final_mode /= ModeBits(TargetMode(s_bundle))
          THEN /\ InitReturn("false", "mode_unstable")
               /\ init_log' = Append(init_log, <<"readCANSTAT", "stable", final_mode>>)
               /\ UNCHANGED <<caninte, fidx>>
          ELSE /\ init_pc' = "filters"
               /\ caninte' = TRUE
               /\ fidx' = 0
               /\ init_log' = init_log \o << <<"readCANSTAT", "stable", final_mode>>,
                                             <<"setCANINTE", 0, 0>> >>
               /\ UNCHANGED <<init_ret, init_fail>>
    /\ UNCHANGED <<rxVars, beVars, regVars, tgtVars, pollVars, frmVars, closeVars, extVars>>
    /\ UNCHANGED <<init_cfg, s_bundle, attempt, reqop, opmod, spi_bus_up,
                   spi_dev_added, isr_added, resets>>

\* lines 288-295: one MCP2515_setFilter call; the library switches the
\* controller to configuration mode to program the filter
init_set_filter ==
    /\ init_pc = "filters"
    /\ reqop' = CANCTRL_REQOP.CONFIG
    /\ init_log' = Append(init_log, <<"setFilter", fidx, 0>>)
    /\ \E ok \in BOOLEAN :
          IF ok THEN /\ opmod' = ModeBits(CANCTRL_REQOP.CONFIG)
                     /\ fidx' = IF fidx + 1 < 6 THEN fidx + 1 ELSE 0
                     /\ init_pc' = IF fidx + 1 < 6 THEN "filters" ELSE "masks"
                     /\ UNCHANGED <<init_ret, init_fail>>
          ELSE /\ InitReturn("false", "filter")
               /\ UNCHANGED <<opmod, fidx>>
    /\ UNCHANGED <<rxVars, beVars, regVars, tgtVars, pollVars, frmVars, closeVars, extVars>>
    /\ UNCHANGED <<init_cfg, s_bundle, attempt, caninte, spi_bus_up,
                   spi_dev_added, isr_added, resets>>

\* lines 297-305: one MCP2515_setFilterMask call
init_set_mask ==
    /\ init_pc = "masks"
    /\ reqop' = CANCTRL_REQOP.CONFIG
    /\ init_log' = Append(init_log, <<"setFilterMask", fidx, 0>>)
    /\ \E ok \in BOOLEAN :
          IF ok THEN /\ opmod' = ModeBits(CANCTRL_REQOP.CONFIG)
                     /\ fidx' = IF fidx + 1 < 2 THEN fidx + 1 ELSE 0
                     /\ init_pc' = IF fidx + 1 < 2 THEN "masks" ELSE "reapply"
                     /\ UNCHANGED <<init_ret, init_fail>>
          ELSE /\ InitReturn("false", "mask")
               /\ UNCHANGED <<opmod, fidx>>
    /\ UNCHANGED <<rxVars, beVars, regVars, tgtVars, pollVars, frmVars, closeVars, extVars>>
    /\ UNCHANGED <<init_cfg, s_bundle, attempt, caninte, spi_bus_up,
                   spi_dev_added, isr_added, resets>>

\* lines 307-313: the requested mode is written to CANCTRL again
init_reapply_mode ==
    /\ init_pc = "reapply"
    /\ reqop' = TargetMode(s_bundle)
    /\ init_log' = Append(init_log, <<"modifyCANCTRL", "second", TargetMode(s_bundle)>>)
    /\ attempt' = 0
    /\ init_pc' = "poll2"
    /\ UNCHANGED <<rxVars, beVars, regVars, tgtVars, pollVars, frmVars, closeVars, extVars>>
    /\ UNCHANGED <<init_cfg, s_bundle, init_ret, init_fail, fidx, opmod,
                   caninte, spi_bus_up, spi_dev_added, isr_added, resets>>

\* a second poll loop that takes the first answer of the controller as success
init_poll_reapply_unchecked ==
    /\ init_pc = "poll2"
    /\ init_log' = Append(init_log, <<"readCANSTAT", "poll2", ModeBits(ReadCANSTAT)>>)
    /\ init_pc' = "gpio"
    /\ UNCHANGED <<rxVars, beVars, regVars, tgtVars, pollVars, frmVars, closeVars, extVars>>
    /\ UNCHANGED <<init_cfg, s_bundle, init_ret, init_fail, attempt, fidx,
                   reqop, opmod, caninte, spi_bus_up, spi_dev_added, isr_added,
                   resets>>

\* lines 314-333: one iteration of the second poll loop, and the return after it
init_poll_reapply ==
    /\ init_pc = "poll2"
    /\ LET current_mode == ModeBits(ReadCANSTAT)
           requested_mode == ModeBits(TargetMode(s_bundle)) IN
        /\ init_log' = Append(init_log, <<"readCANSTAT", "poll2", current_mode>>)
        /\ IF current_mode = requested_mode
             THEN /\ init_pc' = "gpio"
                  /\ UNCHANGED <<attempt, init_ret, init_fail>>
             ELSE /\ attempt' = attempt + 1
                  /\ IF attempt + 1 < ModePollAttempts
                       THEN UNCHANGED <<init_pc, init_ret, init_fail>>
                       ELSE InitReturn("false", "mode_reapply")
    /\ UNCHANGED <<rxVars, beVars, regVars, tgtVars, pollVars, frmVars, closeVars, extVars>>
    /\ UNCHANGED <<init_cfg, s_bundle, fidx, reqop, opmod, caninte,
                   spi_bus_up, spi_dev_added, isr_added, resets>>

\* lines 335-368: gpio_config, gpio_install_isr_service, gpio_isr_handler_add
init_gpio_isr ==
    /\ init_pc = "gpio"
    /\ init_log' = Append(init_log, <<"gpio_isr_setup", 0, 0>>)
    /\ \E failed \in {"none", "gpio_config", "install", "handler_add"} :
          /\ isr_service' = (isr_service \/ failed \in {"none", "handler_add"})
          /\ IF failed = "none"
               THEN /\ isr_added' = TRUE
                    /\ InitReturn("true", "none")
               ELSE /\ InitReturn("false", "gpio")
                    /\ UNCHANGED isr_added
    /\ UNCHANGED <<rxVars, beVars, regVars, tgtVars, pollVars, frmVars, extVars>>
    /\ UNCHANGED <<spi_handle, deinit_ret, deinit_log, retry_of>>
    /\ UNCHANGED <<init_cfg, s_bundle, attempt, fidx, reqop, opmod, caninte,
                   spi_bus_up, spi_dev_added, resets>>

\* mcp2515_single_deinit (lines 372-409).  MCP2515_setConfigMode belongs to
\* the MCP2515 library and may fail; gpio_isr_handler_remove needs the ISR
\* service; spi_bus_remove_device on a handle whose device is gone already
\* may return anything; spi_bus_free needs an initialised bus.
mcp2515_single_deinit ==
    /\ init_pc = "idle"
    /\ \E config_ok \in BOOLEAN, stale_ok \in BOOLEAN :
        LET failed == IF ~config_ok THEN "config_mode"
                      ELSE IF ~s_bundle.null /\ ~isr_service THEN "isr_remove"
                      ELSE IF spi_handle = "stale" /\ ~stale_ok THEN "spi_dev"
                      ELSE IF ~spi_bus_up THEN "spi_bus"
                      ELSE "none"
            past_config == failed /= "config_mode"
            past_isr == past_config /\ failed /= "isr_remove"
            past_dev == past_isr /\ failed /= "spi_dev"
        IN
        /\ deinit_ret' = IF failed = "none" THEN "true" ELSE "false"
        /\ deinit_log' =
              << <<"MCP2515_setConfigMode", failed = "config_mode">> >>
              \o (IF past_config /\ ~s_bundle.null
                    THEN << <<"gpio_isr_handler_remove", failed = "isr_remove">> >>
                    ELSE <<>>)
              \o (IF past_isr /\ spi_handle /= "null"
                    THEN << <<"spi_bus_remove_device", failed = "spi_dev">> >>
                    ELSE <<>>)
              \o (IF past_dev
                    THEN << <<"spi_bus_free", failed = "spi_bus">> >>
                    ELSE <<>>)
        /\ IF past_config
             THEN /\ reqop' = CANCTRL_REQOP.CONFIG
                  /\ opmod' = ModeBits(CANCTRL_REQOP.CONFIG)
             ELSE UNCHANGED <<reqop, opmod>>
        /\ isr_added' = IF past_isr /\ ~s_bundle.null THEN FALSE ELSE isr_added
        /\ spi_dev_added' = IF past_dev /\ spi_handle /= "null"
                              THEN FALSE ELSE spi_dev_added
        /\ spi_handle' = IF past_dev /\ spi_handle /= "null"
                           THEN "stale" ELSE spi_handle
        /\ spi_bus_up' = IF failed = "none" THEN FALSE ELSE spi_bus_up
    /\ retry_of' = "none"
    /\ UNCHANGED <<rxVars, beVars, regVars, tgtVars, pollVars, frmVars, extVars>>
    /\ UNCHANGED <<init_pc, init_cfg, s_bundle, init_ret, init_fail, attempt,
                   fidx, init_log, caninte, resets, isr_service>>

\* the adapter before the first call; the controller is in configuration
\* mode after power-up
InitIdle ==
    /\ init_pc = "idle"
    /\ init_cfg = NullCfg
    /\ s_bundle = NullCfg
    /\ init_ret = "none"
    /\ init_fail = "none"
    /\ attempt = 0
    /\ fidx = 0
    /\ init_log = <<>>
    /\ reqop = CANCTRL_REQOP.CONFIG
    /\ opmod = ModeBits(CANCTRL_REQOP.CONFIG)
    /\ caninte = FALSE
    /\ spi_bus_up = FALSE
    /\ spi_dev_added = FALSE
    /\ isr_added = FALSE
    /\ resets = 0
    /\ isr_service = FALSE
    /\ spi_handle = "null"
    /\ deinit_ret = "none"
    /\ deinit_log = <<>>
    /\ retry_of = "none"

NextInit ==
    \/ ControllerSettles
    \/ ControllerResets
    \/ mcp2515_single_init
    \/ init_spi
    \/ init_reset_bitrate
    \/ init_request_mode
    \/ init_poll_mode
    \/ init_stability
    \/ init_set_filter
    \/ init_set_mask
    \/ init_reapply_mode
    \/ init_poll_reapply
    \/ init_gpio_isr
    \/ mcp2515_single_deinit

\* =====================================================================
\* Backends: twai_adapter.c, send path of mcp2515_single_adapter.c and
\* mcp2515_multi_adapter.c, can_dispatch.c
\* =====================================================================
Backends == {"TWAI", "MCP2515_SINGLE", "MCP2515_MULTI"}

TWAI_FRAME_MAX_DLC == 8

\* timeouts (in ticks) of the configurations handed to can_twai_init
TwaiTimeouts ==
    { [receive_timeout |-> 100, transmit_timeout |-> 100,
       bus_off_timeout |-> 1000, bus_not_running_timeout |-> 100],
      [receive_timeout |-> 10, transmit_timeout |-> 20,
       bus_off_timeout |-> 500, bus_not_running_timeout |-> 50] }

\* the zero-initialised static twai_config
ZeroTimeouts ==
    [receive_timeout |-> 0, transmit_timeout |-> 0,
     bus_off_timeout |-> 0, bus_not_running_timeout |-> 0]

\* messages handed to send
SendMsgs == [id : {291}, extd : BOOLEAN, dlc : {0, 8, 9}]

\* frames the bus delivers to the TWAI driver
WireFrames == [id : {291}, dlc : {8, 9}]

NoCall == [op |-> "none", dlc |-> 0, err |-> "none", ret |-> FALSE,
           seen |-> "none", pre |-> "none", post |-> "none",
           arg |-> "none"]

NoHist == [index |-> 0, pending |-> 0, taken |-> <<>>, copied |-> 0]

Count(log, name) == Cardinality({i \in 1..Len(log) : log[i][1] = name})

\* ---- TWAI driver, as documented for the ESP-IDF calls the adapter makes ----
\* twai_transmit: needs the running state; may time out on a full queue
twai_transmit(st) ==
    IF st = "RUNNING" THEN {"ESP_OK", "ESP_ERR_TIMEOUT"}
    ELSE {"ESP_ERR_INVALID_STATE"}

\* twai_receive: needs an installed driver; times out on an empty queue
twai_receive(st, q) ==
    IF st = "UNINSTALLED" THEN "ESP_ERR_INVALID_STATE"
    ELSE IF q /= <<>> THEN "ESP_OK"
    ELSE "ESP_ERR_TIMEOUT"

\* the controller leaves the bus after too many transmit errors
TwaiBusOff ==
    /\ backend = "TWAI"
    /\ twai_state = "RUNNING"
    /\ twai_state' = "BUS_OFF"
    /\ UNCHANGED <<rxVars, initVars, regVars, tgtVars, pollVars, frmVars, extVars>>
    /\ UNCHANGED <<backend, mcp_rx, call_hist, twai_config, twai_rxq, in_msg, merrf, g_alloc,
                   g_handles, g_count, mcp_live, next_handle, call_log,
                   last_call>>

\* bus recovery completes: the driver goes to the stopped state
TwaiRecoveryCompletes ==
    /\ backend = "TWAI"
    /\ twai_state = "RECOVERING"
    /\ twai_state' = "STOPPED"
    /\ UNCHANGED <<rxVars, initVars, regVars, tgtVars, pollVars, frmVars, extVars>>
    /\ UNCHANGED <<backend, mcp_rx, call_hist, twai_config, twai_rxq, in_msg, merrf, g_alloc,
                   g_handles, g_count, mcp_live, next_handle, call_log,
                   last_call>>

\* a frame from the bus enters the receive queue of the driver
TwaiFrameIn ==
    /\ backend = "TWAI"
    /\ twai_state = "RUNNING"
    /\ Len(twai_rxq) < MaxDrvRx
    /\ \E f \in WireFrames : twai_rxq' = Append(twai_rxq, f)
    /\ UNCHANGED <<rxVars, initVars, regVars, tgtVars, pollVars, frmVars, extVars>>
    /\ UNCHANGED <<backend, mcp_rx, call_hist, twai_state, twai_config, in_msg, merrf, g_alloc,
                   g_handles, g_count, mcp_live, next_handle, call_log,
                   last_call>>

\* ---- twai_adapter.c ----
\* a recovery check that restarts the controller before it waits
reset_if_needed_start_first(st, t) ==
    IF st = "UNINSTALLED"
      THEN {[calls |-> << <<"twai_get_status_info", 0>> >>,
             state |-> st, seen |-> "unreadable"]}
    ELSE IF st = "BUS_OFF"
      THEN {[calls |-> << <<"twai_get_status_info", 0>>,
                          <<"twai_initiate_recovery", 0>>,
                          <<"vTaskDelay", t.bus_off_timeout>> >>,
             state |-> s2, seen |-> st] : s2 \in {"RECOVERING", "STOPPED"}}
    ELSE IF st /= "RUNNING"
      THEN {[calls |-> << <<"twai_get_status_info", 0>>,
                          <<"twai_stop", 0>>,
                          <<"twai_start", 0>>,
                          <<"vTaskDelay", t.bus_not_running_timeout>> >>,
             state |-> s2, seen |-> st] :
                s2 \in IF st = "STOPPED" THEN {"RUNNING"}
                       ELSE {"RECOVERING", "RUNNING"}}
    ELSE {[calls |-> << <<"twai_get_status_info", 0>> >>,
           state |-> st, seen |-> st]}

\* can_twai_reset_twai_if_needed: the calls it makes and the driver states it
\* can leave, given the driver state st and the stored timeouts t.  While the
\* task sleeps in vTaskDelay a running bus recovery may or may not complete.
can_twai_reset_twai_if_needed(st, t) ==
    IF st = "UNINSTALLED"
      THEN \* twai_get_status_info fails: nothing else is done
           {[calls |-> << <<"twai_get_status_info", 0>> >>,
             state |-> st, seen |-> "unreadable"]}
    ELSE IF st = "BUS_OFF"
      THEN {[calls |-> << <<"twai_get_status_info", 0>>,
                          <<"twai_initiate_recovery", 0>>,
                          <<"vTaskDelay", t.bus_off_timeout>> >>,
             state |-> s2, seen |-> st] : s2 \in {"RECOVERING", "STOPPED"}}
    ELSE IF st /= "RUNNING"
      THEN \* twai_stop fails outside the running state; twai_start succeeds
           \* from the stopped state only
           {[calls |-> << <<"twai_get_status_info", 0>>,
                          <<"twai_stop", 0>>,
                          <<"vTaskDelay", t.bus_not_running_timeout>>,
                          <<"twai_start", 0>> >>,
             state |-> s2, seen |-> st] :
                s2 \in IF st = "STOPPED" THEN {"RUNNING"}
                       ELSE {"RECOVERING", "RUNNING"}}
    ELSE {[calls |-> << <<"twai_get_status_info", 0>> >>,
           state |-> st, seen |-> st]}

\* a send path that never runs the recovery check
SendNeedsCheck_never(err) == FALSE

\* can_twai_send line 109: if (err != ESP_OK)
SendNeedsCheck(err) == err /= "ESP_OK"

\* a receive path that runs the recovery check on a timeout as well
ReceiveNeedsCheck_timeout(err) == err /= "ESP_OK"

\* can_twai_receive line 163: else if (err != ESP_ERR_TIMEOUT)
ReceiveNeedsCheck(err) == err /= "ESP_OK" /\ err /= "ESP_ERR_TIMEOUT"

\* outcomes of can_twai_init(NULL): the function reads cfg->params at once
\* (line 26) without a check; the read of address 0 either stops the program
\* (panic and restart) or yields some bytes the call goes on with
NullCfgOutcomes == {"panic", "garbage"}

\* an init that stores the configuration before it starts the driver
twai_init_config_early(cfg, stored, started) == cfg

\* twai_config = *cfg comes after the test of twai_start (line 57)
twai_init_config(cfg, stored, started) == IF started THEN cfg ELSE stored

\* can_twai_init: install and start the driver, remember the configuration
can_twai_init ==
    /\ backend = "TWAI"
    /\ \E t \in TwaiTimeouts, start_ok \in BOOLEAN, cfg_null \in BOOLEAN,
          outcome \in NullCfgOutcomes :
        LET arg == IF cfg_null THEN "null" ELSE "valid" IN
        IF cfg_null /\ outcome = "panic"
          THEN \* the chip restarts: the driver is gone, statics are zero
               /\ call_log' = <<>>
               /\ last_call' = [NoCall EXCEPT !.op = "init", !.arg = arg,
                                   !.err = "panic", !.pre = twai_state,
                                   !.post = "UNINSTALLED"]
               /\ twai_state' = "UNINSTALLED"
               /\ twai_config' = ZeroTimeouts
               /\ twai_rxq' = <<>>
        ELSE IF twai_state /= "UNINSTALLED"
          THEN \* twai_driver_install: ESP_ERR_INVALID_STATE
               /\ call_log' = << <<"twai_driver_install", 0>> >>
               /\ last_call' = [NoCall EXCEPT !.op = "init", !.arg = arg,
                                   !.err = "ESP_ERR_INVALID_STATE",
                                   !.pre = twai_state, !.post = twai_state]
               /\ UNCHANGED <<twai_state, twai_config, twai_rxq>>
        ELSE IF ~start_ok
          THEN /\ call_log' = << <<"twai_driver_install", 0>>, <<"twai_start", 0>>,
                                 <<"twai_driver_uninstall", 0>> >>
               /\ last_call' = [NoCall EXCEPT !.op = "init", !.arg = arg,
                                   !.err = "ESP_FAIL",
                                   !.pre = twai_state, !.post = twai_state]
               /\ twai_config' = twai_init_config(t, twai_config, FALSE)
               /\ UNCHANGED <<twai_state, twai_rxq>>
        ELSE /\ call_log' = << <<"twai_driver_install", 0>>, <<"twai_start", 0>> >>
             /\ twai_state' = "RUNNING"
             /\ twai_config' = twai_init_config(t, twai_config, TRUE)
             /\ last_call' = [NoCall EXCEPT !.op = "init", !.arg = arg,
                                 !.err = "ESP_OK",
                                 !.ret = TRUE, !.pre = twai_state,
                                 !.post = "RUNNING"]
             /\ UNCHANGED twai_rxq
    /\ UNCHANGED <<rxVars, initVars, regVars, tgtVars, pollVars, frmVars, extVars>>
    /\ UNCHANGED <<backend, mcp_rx, call_hist, in_msg, merrf, g_alloc, g_handles,
                   g_count, mcp_live, next_handle>>

\* can_twai_deinit: stop and uninstall the driver
can_twai_deinit ==
    /\ backend = "TWAI"
    /\ IF twai_state /= "RUNNING"
         THEN \* twai_stop: ESP_ERR_INVALID_STATE
              /\ call_log' = << <<"twai_stop", 0>> >>
              /\ last_call' = [NoCall EXCEPT !.op = "deinit",
                                  !.err = "ESP_ERR_INVALID_STATE",
                                  !.pre = twai_state, !.post = twai_state]
              /\ UNCHANGED <<twai_state, twai_rxq>>
         ELSE /\ call_log' = << <<"twai_stop", 0>>, <<"twai_driver_uninstall", 0>> >>
              /\ twai_state' = "UNINSTALLED"
              /\ twai_rxq' = <<>>
              /\ last_call' = [NoCall EXCEPT !.op = "deinit", !.err = "ESP_OK",
                                  !.ret = TRUE, !.pre = twai_state,
                                  !.post = "UNINSTALLED"]
    /\ UNCHANGED <<rxVars, initVars, regVars, tgtVars, pollVars, frmVars, extVars>>
    /\ UNCHANGED <<backend, mcp_rx, call_hist, twai_config, in_msg, merrf, g_alloc, g_handles,
                   g_count, mcp_live, next_handle>>

\* can_twai_send
can_twai_send ==
    /\ backend = "TWAI"
    /\ \E m \in SendMsgs :
        IF m.dlc > TWAI_FRAME_MAX_DLC
          THEN /\ call_log' = <<>>
               /\ last_call' = [NoCall EXCEPT !.op = "send", !.dlc = m.dlc,
                                   !.pre = twai_state, !.post = twai_state]
               /\ call_hist' = NoHist
               /\ UNCHANGED twai_state
          ELSE \E err \in twai_transmit(twai_state) :
                IF SendNeedsCheck(err)
                  THEN \E o \in can_twai_reset_twai_if_needed(twai_state,
                                                              twai_config) :
                        /\ call_log' = << <<"twai_transmit",
                                            twai_config.transmit_timeout>> >>
                                       \o o.calls
                        /\ twai_state' = o.state
                        /\ call_hist' = [NoHist EXCEPT !.copied = m.dlc]
                        /\ last_call' = [arg |-> "none", op |-> "send", dlc |-> m.dlc,
                                         err |-> err, ret |-> FALSE,
                                         seen |-> o.seen, pre |-> twai_state,
                                         post |-> o.state]
                  ELSE /\ call_log' = << <<"twai_transmit",
                                           twai_config.transmit_timeout>> >>
                       /\ last_call' = [arg |-> "none", op |-> "send", dlc |-> m.dlc,
                                        err |-> err, ret |-> (err = "ESP_OK"),
                                        seen |-> "none", pre |-> twai_state,
                                        post |-> twai_state]
                       /\ call_hist' = [NoHist EXCEPT !.copied = m.dlc]
                       /\ UNCHANGED twai_state
    /\ UNCHANGED <<rxVars, initVars, regVars, tgtVars, pollVars, frmVars, extVars>>
    /\ UNCHANGED <<backend, mcp_rx, twai_config, twai_rxq, in_msg, merrf, g_alloc,
                   g_handles, g_count, mcp_live, next_handle>>

\* can_twai_receive (raw_in_msg != NULL)
can_twai_receive ==
    /\ backend = "TWAI"
    /\ LET err == twai_receive(twai_state, twai_rxq) IN
        IF err = "ESP_OK"
          THEN LET f == Head(twai_rxq) IN
               /\ twai_rxq' = Tail(twai_rxq)
               /\ in_msg' = [in_msg EXCEPT !.id = f.id, !.dlc = f.dlc]
               /\ call_log' = << <<"twai_receive", twai_config.receive_timeout>> >>
               /\ last_call' = [arg |-> "none", op |-> "receive", dlc |-> f.dlc,
                                err |-> err,
                                ret |-> (f.dlc <= TWAI_FRAME_MAX_DLC),
                                seen |-> "none", pre |-> twai_state,
                                post |-> twai_state]
               /\ call_hist' = [NoHist EXCEPT !.pending = Len(twai_rxq),
                                   !.taken = <<f>>,
                                   !.copied = IF f.dlc <= TWAI_FRAME_MAX_DLC
                                                THEN f.dlc ELSE 0]
               /\ UNCHANGED twai_state
        ELSE IF ReceiveNeedsCheck(err)
          THEN \E o \in can_twai_reset_twai_if_needed(twai_state, twai_config) :
               /\ call_log' = << <<"twai_receive", twai_config.receive_timeout>> >>
                              \o o.calls
               /\ twai_state' = o.state
               /\ last_call' = [arg |-> "none", op |-> "receive", dlc |-> 0,
                                err |-> err,
                                ret |-> FALSE, seen |-> o.seen,
                                pre |-> twai_state, post |-> o.state]
               /\ call_hist' = [NoHist EXCEPT !.pending = Len(twai_rxq)]
               /\ UNCHANGED <<twai_rxq, in_msg>>
        ELSE /\ call_log' = << <<"twai_receive", twai_config.receive_timeout>> >>
             /\ last_call' = [arg |-> "none", op |-> "receive", dlc |-> 0,
                                err |-> err,
                              ret |-> FALSE, seen |-> "none",
                              pre |-> twai_state, post |-> twai_state]
             /\ call_hist' = [NoHist EXCEPT !.pending = Len(twai_rxq)]
             /\ UNCHANGED <<twai_state, twai_rxq, in_msg>>
    /\ UNCHANGED <<rxVars, initVars, regVars, tgtVars, pollVars, frmVars, extVars>>
    /\ UNCHANGED <<backend, mcp_rx, twai_config, merrf, g_alloc, g_handles,
                   g_count, mcp_live, next_handle>>

\* ---- mcp2515_single_adapter.c, can_dispatch.c (MCP2515 single) ----
\* results of MCP2515_sendMessageAfterCtrlCheck
McpSendResults == {"ERROR_OK", "ERROR_ALLTXBUSY", "ERROR_FAILTX"}

\* mcp2515_single_send, reached through can_twai_send of can_dispatch.c
mcp2515_single_send ==
    /\ backend = "MCP2515_SINGLE"
    /\ \E m \in SendMsgs :
        IF m.dlc > CAN_MAX_DLEN
          THEN /\ call_log' = <<>>
               /\ last_call' = [NoCall EXCEPT !.op = "send", !.dlc = m.dlc]
               /\ call_hist' = NoHist
               /\ UNCHANGED merrf
          ELSE \E ret \in McpSendResults, merr \in BOOLEAN :
                IF ret /= "ERROR_OK"
                  THEN \* a transmit error may have raised CANINTF.MERRF
                       LET canintf_merrf == merrf \/ (merr /\ ret = "ERROR_FAILTX") IN
                       /\ call_log' =
                            << <<"readTXBnCTRL", 0>>,
                               <<"MCP2515_sendMessageAfterCtrlCheck", m.dlc>>,
                               <<"readEFLG", 0>>, <<"readCANINTF", 0>>,
                               <<"readTXBnCTRL", 0>> >>
                            \o (IF canintf_merrf
                                  THEN << <<"MCP2515_clearMERR", 0>> >>
                                  ELSE <<>>)
                       /\ merrf' = FALSE
                       /\ call_hist' = [NoHist EXCEPT !.copied = m.dlc]
                       /\ last_call' = [NoCall EXCEPT !.op = "send",
                                           !.dlc = m.dlc, !.err = ret]
                  ELSE /\ call_log' =
                            << <<"readTXBnCTRL", 0>>,
                               <<"MCP2515_sendMessageAfterCtrlCheck", m.dlc>> >>
                       /\ call_hist' = [NoHist EXCEPT !.copied = m.dlc]
                       /\ last_call' = [NoCall EXCEPT !.op = "send",
                                           !.dlc = m.dlc, !.err = ret,
                                           !.ret = TRUE]
                       /\ UNCHANGED merrf
    /\ UNCHANGED <<rxVars, initVars, regVars, tgtVars, pollVars, frmVars, extVars>>
    /\ UNCHANGED <<backend, mcp_rx, twai_state, twai_config, twai_rxq, in_msg,
                   g_alloc, g_handles, g_count, mcp_live, next_handle>>

\* ---- mcp2515_multi_adapter.c ----
\* a deinit that destroys the controllers and keeps the table and the count
multi_deinit_state_keeps_table(alloc, handles, count, live) ==
    IF ~alloc
      THEN [alloc |-> alloc, handles |-> handles, count |-> count,
            live |-> live, destroyed |-> <<>>]
      ELSE [alloc |-> alloc, handles |-> handles, count |-> count,
            live |-> live \ {handles[i] : i \in 1..count},
            destroyed |-> SelectSeq(SubSeq(handles, 1, count),
                                    LAMBDA h : h /= 0)]

\* mcp2515_multi_deinit as a function of the adapter state
multi_deinit_state(alloc, handles, count, live) ==
    IF ~alloc
      THEN [alloc |-> alloc, handles |-> handles, count |-> count,
            live |-> live, destroyed |-> <<>>]
      ELSE [alloc |-> FALSE, handles |-> <<>>, count |-> 0,
            live |-> live \ {handles[i] : i \in 1..count},
            destroyed |-> SelectSeq(SubSeq(handles, 1, count),
                                    LAMBDA h : h /= 0)]

\* mcp2515_multi_init(instances, count); instance failat fails at step
\* failstep (failat = 0: every instance is brought up)
mcp2515_multi_init ==
    /\ backend = "MCP2515_MULTI"
    /\ \E count \in 0..MaxInstances, failat \in 0..MaxInstances,
          failstep \in {"create", "bitrate", "normal"},
          instances_null \in BOOLEAN :
        /\ failat <= count
        /\ next_handle + count <= MaxHandles
        /\ instances_null => failat = 0
        /\ IF instances_null \/ count = 0 \/ g_alloc
             THEN /\ call_log' = <<>>
                  /\ last_call' = [NoCall EXCEPT !.op = "init",
                                      !.arg = IF instances_null THEN "null"
                                              ELSE IF count = 0 THEN "empty"
                                              ELSE "valid"]
                  /\ UNCHANGED <<g_alloc, g_handles, g_count, mcp_live,
                                 next_handle, ownVars>>
           ELSE IF failat = 0
             THEN /\ g_alloc' = TRUE
                  /\ g_handles' = [i \in 1..count |-> next_handle + i]
                  /\ g_count' = count
                  /\ mcp_live' = mcp_live \cup {next_handle + i : i \in 1..count}
                  /\ next_handle' = next_handle + count
                  /\ call_log' = [i \in 1..count |->
                                     <<"MCP2515_CreateOnBus", next_handle + i>>]
                  /\ last_call' = [NoCall EXCEPT !.op = "init", !.ret = TRUE,
                                      !.arg = "valid"]
                  /\ init_owned' = {next_handle + i : i \in 1..count}
                  /\ UNCHANGED destroy_log
           ELSE \* instances 1..failat-1 are stored; the handle of instance
                \* failat exists unless its creation failed; then
                \* mcp2515_multi_deinit runs with g_count still 0
                LET made == IF failstep = "create" THEN failat - 1 ELSE failat
                    stored == [i \in 1..count |->
                                 IF i < failat THEN next_handle + i ELSE 0]
                    d == multi_deinit_state(TRUE, stored, g_count,
                                            mcp_live \cup
                                            {next_handle + i : i \in 1..made})
                IN  /\ g_alloc' = d.alloc
                    /\ g_handles' = d.handles
                    /\ g_count' = d.count
                    /\ mcp_live' = d.live
                    /\ next_handle' = next_handle + made
                    /\ call_log' = [i \in 1..made |->
                                      <<"MCP2515_CreateOnBus", next_handle + i>>]
                                   \o [i \in 1..Len(d.destroyed) |->
                                      <<"MCP2515_Destroy", d.destroyed[i]>>]
                    /\ last_call' = [NoCall EXCEPT !.op = "init",
                                        !.err = failstep, !.arg = "valid"]
                    /\ destroy_log' = destroy_log \o d.destroyed
                    /\ UNCHANGED init_owned
    /\ UNCHANGED <<rxVars, initVars, regVars, tgtVars, pollVars, frmVars>>
    /\ UNCHANGED <<dspVars, busVars, statVars>>
    /\ UNCHANGED <<backend, mcp_rx, call_hist, twai_state, twai_config, twai_rxq, in_msg, merrf>>

\* mcp2515_multi_deinit
mcp2515_multi_deinit ==
    /\ backend = "MCP2515_MULTI"
    /\ LET d == multi_deinit_state(g_alloc, g_handles, g_count, mcp_live) IN
        /\ g_alloc' = d.alloc
        /\ g_handles' = d.handles
        /\ g_count' = d.count
        /\ mcp_live' = d.live
        /\ call_log' = [i \in 1..Len(d.destroyed) |->
                          <<"MCP2515_Destroy", d.destroyed[i]>>]
        /\ last_call' = [NoCall EXCEPT !.op = "deinit", !.ret = TRUE]
        /\ mcp_rx' = [h \in DOMAIN mcp_rx |->
                        IF h \in Range(d.destroyed) THEN <<>> ELSE mcp_rx[h]]
        /\ destroy_log' = destroy_log \o d.destroyed
    /\ UNCHANGED <<rxVars, initVars, regVars, tgtVars, pollVars, frmVars>>
    /\ UNCHANGED <<dspVars, busVars, statVars, init_owned>>
    /\ UNCHANGED <<backend, call_hist, twai_state, twai_config, twai_rxq, in_msg, merrf,
                   next_handle>>

\* a conversion that never sets the extended-frame bit of can_id
to_frame_no_flag(in) ==
    [can_id |-> [b31 |-> FALSE, low |-> in.id % 2048],
     can_dlc |-> in.dlc,
     copied |-> in.dlc]

\* to_frame: the CAN_FRAME built from a message.  can_id is kept as bit 31
\* and the bits below it; copied is the number of data bytes the loop writes
\* into out->data
to_frame(in) ==
    [can_id |-> IF in.extd THEN [b31 |-> TRUE, low |-> in.id]
                ELSE [b31 |-> FALSE, low |-> in.id % 2048],
     can_dlc |-> in.dlc,
     copied |-> in.dlc]

\* a conversion that treats every frame as a standard frame
from_frame_std(f) ==
    [id |-> f.can_id.low % 2048, extd |-> FALSE, dlc |-> f.can_dlc]

\* from_frame: the message built from a CAN_FRAME
from_frame(f) ==
    [id |-> IF f.can_id.b31 THEN f.can_id.low % 536870912
            ELSE f.can_id.low % 2048,
     extd |-> f.can_id.b31,
     dlc |-> f.can_dlc]

\* a range check that admits index == g_count
IndexInRange_inclusive(index, count) == index <= count

\* index >= g_count is refused
IndexInRange(index, count) == index < count

\* an adapter that always addresses its first instance
HandleAt_first(index) == IF g_handles = <<>> THEN 0 ELSE g_handles[1]

\* g_handles[index]
HandleAt(index) ==
    IF index + 1 \in DOMAIN g_handles THEN g_handles[index + 1] ELSE 0

\* frames the bus delivers to an MCP2515 of the multi adapter (CAN_FRAME)
McpFrames ==
    { [can_id |-> [b31 |-> FALSE, low |-> 291], can_dlc |-> 8],
      [can_id |-> [b31 |-> TRUE, low |-> 74565], can_dlc |-> 2] }

\* the bus delivers a frame to one of the controllers the adapter holds
McpMultiFrameIn ==
    /\ backend = "MCP2515_MULTI"
    /\ \E h \in Range(g_handles) \ {0}, f \in McpFrames :
        /\ Len(mcp_rx[h]) < MaxDrvRx
        /\ mcp_rx' = [mcp_rx EXCEPT ![h] = Append(@, f)]
    /\ UNCHANGED <<rxVars, initVars, regVars, tgtVars, pollVars, frmVars, extVars>>
    /\ UNCHANGED <<backend, call_hist, twai_state, twai_config, twai_rxq,
                   in_msg, merrf, g_alloc, g_handles, g_count, mcp_live,
                   next_handle, call_log, last_call>>

\* mcp2515_multi_send(index, msg), msg != NULL.  With more than 8 data bytes
\* the copy loop of to_frame writes past out->data: the call that follows may
\* then return anything
mcp2515_multi_send ==
    /\ backend = "MCP2515_MULTI"
    /\ \E index \in 0..MaxInstances, m \in SendMsgs :
        IF ~g_alloc \/ ~IndexInRange(index, g_count)
          THEN /\ call_log' = <<>>
               /\ last_call' = [NoCall EXCEPT !.op = "send", !.dlc = m.dlc]
               /\ call_hist' = [NoHist EXCEPT !.index = index]
          ELSE LET f == to_frame(m) IN
               \E ret \in McpSendResults :
               /\ call_log' = << <<"MCP2515_SendMessageAfterCtrlCheck",
                                   HandleAt(index)>> >>
               /\ last_call' = [NoCall EXCEPT !.op = "send", !.dlc = m.dlc,
                                   !.err = ret, !.ret = (ret = "ERROR_OK")]
               /\ call_hist' = [NoHist EXCEPT !.index = index,
                                   !.copied = f.copied]
    /\ UNCHANGED <<rxVars, initVars, regVars, tgtVars, pollVars, frmVars, extVars>>
    /\ UNCHANGED <<backend, mcp_rx, twai_state, twai_config, twai_rxq, in_msg,
                   merrf, g_alloc, g_handles, g_count, mcp_live, next_handle>>

\* mcp2515_multi_receive(index, msg), msg != NULL
mcp2515_multi_receive ==
    /\ backend = "MCP2515_MULTI"
    /\ \E index \in 0..MaxInstances :
        IF ~g_alloc \/ ~IndexInRange(index, g_count)
          THEN /\ call_log' = <<>>
               /\ last_call' = [NoCall EXCEPT !.op = "receive"]
               /\ call_hist' = [NoHist EXCEPT !.index = index]
               /\ UNCHANGED <<mcp_rx, in_msg>>
          ELSE LET h == HandleAt(index)
                   q == IF h \in DOMAIN mcp_rx THEN mcp_rx[h] ELSE <<>>
               IN
               /\ call_log' = << <<"MCP2515_ReadMessageAfterStatCheck", h>> >>
               /\ IF q = <<>>
                    THEN \* ERROR_NOMSG
                         /\ last_call' = [NoCall EXCEPT !.op = "receive",
                                             !.err = "ERROR_NOMSG"]
                         /\ call_hist' = [NoHist EXCEPT !.index = index]
                         /\ UNCHANGED <<mcp_rx, in_msg>>
                    ELSE /\ mcp_rx' = [mcp_rx EXCEPT ![h] = Tail(q)]
                         /\ in_msg' = from_frame(Head(q))
                         /\ last_call' = [NoCall EXCEPT !.op = "receive",
                                             !.dlc = Head(q).can_dlc,
                                             !.err = "ERROR_OK", !.ret = TRUE]
                         /\ call_hist' = [NoHist EXCEPT !.index = index,
                                             !.pending = Len(q),
                                             !.taken = <<Head(q)>>]
    /\ UNCHANGED <<rxVars, initVars, regVars, tgtVars, pollVars, frmVars, extVars>>
    /\ UNCHANGED <<backend, twai_state, twai_config, twai_rxq, merrf, g_alloc,
                   g_handles, g_count, mcp_live, next_handle>>

\* the adapters before the first call, for one build configuration
BackendIdle ==
    /\ twai_state = "UNINSTALLED"
    /\ twai_config = ZeroTimeouts
    /\ twai_rxq = <<>>
    /\ in_msg = [id |-> 0, extd |-> FALSE, dlc |-> 0]
    /\ mcp_rx = [h \in 1..MaxHandles |-> <<>>]
    /\ call_hist = NoHist
    /\ merrf = FALSE
    /\ g_alloc = FALSE
    /\ g_handles = <<>>
    /\ g_count = 0
    /\ mcp_live = {}
    /\ next_handle = 0
    /\ call_log = <<>>
    /\ last_call = NoCall

NextBackend ==
    \/ TwaiBusOff
    \/ TwaiRecoveryCompletes
    \/ TwaiFrameIn
    \/ can_twai_init
    \/ can_twai_deinit
    \/ can_twai_send
    \/ can_twai_receive
    \/ mcp2515_single_send
    \/ mcp2515_multi_init
    \/ mcp2515_multi_deinit
    \/ mcp2515_multi_send

\* =====================================================================
\* Addressing helpers of mcp2515_multi_if.h: can_target_t
\* =====================================================================
RECURSIVE BitOr(_, _)
\* a | b
BitOr(a, b) ==
    IF a = 0 THEN b
    ELSE IF b = 0 THEN a
    ELSE (IF a % 2 = 1 \/ b % 2 = 1 THEN 1 ELSE 0)
         + 2 * BitOr(a \div 2, b \div 2)

RECURSIVE BitAnd(_, _)
\* a & b
BitAnd(a, b) ==
    IF a = 0 \/ b = 0 THEN 0
    ELSE (IF a % 2 = 1 /\ b % 2 = 1 THEN 1 ELSE 0)
         + 2 * BitAnd(a \div 2, b \div 2)

\* a packing that shifts the bus id by 7 bits
can_target_from_ids_shift7(bus_id, dev_id) ==
    BitOr((bus_id % 65536) * 128, dev_id % 65536) % 65536

\* (can_target_t)(((uint16_t)bus_id << 8) | (uint16_t)dev_id)
can_target_from_ids(bus_id, dev_id) ==
    BitOr((bus_id % 65536) * 256, dev_id % 65536) % 65536

\* a projection that drops the top bit of the bus id
can_target_bus_id_masked(t) == (t \div 256) % 128

\* (can_bus_id_t)(t >> 8)
can_target_bus_id(t) == (t \div 256) % 256

\* (can_dev_id_t)(t & 0xFF)
can_target_dev_id(t) == BitAnd(t, 255) % 256

NoTarget == [bus |-> 0, dev |-> 0, t |-> 0]

\* can_target_from_ids applied to the two input ids
target_pack ==
    /\ tgt_pc = "ids"
    /\ tgt_out' = [tgt_out EXCEPT
                     !.t = can_target_from_ids(tgt_in.bus, tgt_in.dev)]
    /\ tgt_pc' = "packed"
    /\ UNCHANGED <<rxVars, initVars, beVars, regVars, frmVars, pollVars, tgt_in, extVars>>

\* can_target_bus_id and can_target_dev_id applied to the packed target
target_unpack ==
    /\ tgt_pc = "packed"
    /\ tgt_out' = [tgt_out EXCEPT !.bus = can_target_bus_id(tgt_out.t),
                                  !.dev = can_target_dev_id(tgt_out.t)]
    /\ tgt_pc' = "unpacked"
    /\ UNCHANGED <<rxVars, initVars, beVars, regVars, frmVars, pollVars, tgt_in, extVars>>

\* can_target_bus_id and can_target_dev_id applied to the input target
target_split ==
    /\ tgt_pc = "target"
    /\ tgt_out' = [tgt_out EXCEPT !.bus = can_target_bus_id(tgt_in.t),
                                  !.dev = can_target_dev_id(tgt_in.t)]
    /\ tgt_pc' = "split"
    /\ UNCHANGED <<rxVars, initVars, beVars, regVars, frmVars, pollVars, tgt_in, extVars>>

\* can_target_from_ids applied to the two projections
target_rejoin ==
    /\ tgt_pc = "split"
    /\ tgt_out' = [tgt_out EXCEPT
                     !.t = can_target_from_ids(tgt_out.bus, tgt_out.dev)]
    /\ tgt_pc' = "rejoined"
    /\ UNCHANGED <<rxVars, initVars, beVars, regVars, frmVars, pollVars, tgt_in, extVars>>

TargetIdle ==
    /\ tgt_pc = "idle"
    /\ tgt_in = NoTarget
    /\ tgt_out = NoTarget

\* every pair of ids (can_bus_id_t, can_dev_id_t) and every can_target_t
TargetInputs ==
    /\ \/ /\ tgt_pc = "ids"
          /\ tgt_in \in [bus : 0..255, dev : 0..255, t : {0}]
       \/ /\ tgt_pc = "target"
          /\ tgt_in \in [bus : {0}, dev : {0}, t : 0..65535]
    /\ tgt_out = NoTarget

NextTarget ==
    \/ target_pack
    \/ target_unpack
    \/ target_split
    \/ target_rejoin

\* =====================================================================
\* Registry and id-based routing declared in mcp2515_multi_if.h
\* =====================================================================
\* capacity of the registry: buses, and devices of one bus
RegistryBusCapacity == 2

RegistryDevCapacity == 2

\* ids used by the bundles handed to canif_register_bundle
BusIds == {1, 2, 3}

DevIds == {10, 11}

\* ids asked for in lookups and id-based calls
LookupBusIds == BusIds \cup {0}

LookupDevIds == DevIds \cup {12}

\* device lists of a bundle, up to MaxBundleDevs devices
DevLists == UNION {[1..n -> DevIds] : n \in 0..MaxBundleDevs}

Bundles == [bus_id : BusIds, devices : DevLists]

\* a device handle: position of the bus and of the device; <<0, 0>> is NULL
NullDev == <<0, 0>>

DevHandles ==
    {NullDev} \cup ((1..RegistryBusCapacity) \X (1..RegistryDevCapacity))

\* composite targets handed to the target-based calls
TargetArgs ==
    {can_target_from_ids(b, d) : b \in LookupBusIds, d \in LookupDevIds}

NoRegCall == [op |-> "none", bus_id |-> 0, dev_id |-> 0, target |-> 0,
              devices |-> <<>>, ret |-> FALSE, bus_h |-> 0, dev_h |-> NullDev]

RECURSIVE FindBus(_, _, _)
\* position of the first bus with the id, from position i on; 0 if none
FindBus(reg, bus_id, i) ==
    IF i > Len(reg) THEN 0
    ELSE IF reg[i].bus_id = bus_id THEN i
    ELSE FindBus(reg, bus_id, i + 1)

RECURSIVE FindDev(_, _, _)
\* position of the first device with the id in a device list; 0 if none
FindDev(devs, dev_id, j) ==
    IF j > Len(devs) THEN 0
    ELSE IF devs[j] = dev_id THEN j
    ELSE FindDev(devs, dev_id, j + 1)

\* a lookup that ignores the id and returns the first bus
canif_bus_get_by_id_first(reg, bus_id) == IF reg = <<>> THEN 0 ELSE 1

\* canif_bus_get_by_id: handle of the bus with the id, NULL (0) if none
canif_bus_get_by_id(reg, bus_id) == FindBus(reg, bus_id, 1)

\* canif_dev_get_by_id: handle of the device, NULL if the bus or the device
\* is not registered
canif_dev_get_by_id(reg, bus_id, dev_id) ==
    LET b == canif_bus_get_by_id(reg, bus_id) IN
    IF b = 0 THEN NullDev
    ELSE LET d == FindDev(reg[b].devices, dev_id, 1) IN
         IF d = 0 THEN NullDev ELSE <<b, d>>

\* canif_is_valid_bus: non-NULL and currently registered
canif_is_valid_bus(reg, b) == b \in 1..Len(reg)

\* canif_is_valid_device: non-NULL and currently registered
canif_is_valid_device(reg, h) ==
    /\ h[1] \in 1..Len(reg)
    /\ h[2] \in 1..Len(reg[h[1]].devices)

\* canif_bus_count, canif_bus_device_count
canif_bus_count(reg) == Len(reg)

canif_bus_device_count(reg, b) ==
    IF b \in 1..Len(reg) THEN Len(reg[b].devices) ELSE 0

\* a registration that stores the devices up to the first repeated id
register_bundle_partial(reg, bundle) ==
    IF \/ Len(reg) >= RegistryBusCapacity
       \/ Len(bundle.devices) = 0
       \/ Len(bundle.devices) > RegistryDevCapacity
       \/ FindBus(reg, bundle.bus_id, 1) /= 0
      THEN [ok |-> FALSE, reg |-> reg]
    ELSE IF NoDup(bundle.devices)
      THEN [ok |-> TRUE,
            reg |-> Append(reg, [bus_id |-> bundle.bus_id,
                                 devices |-> bundle.devices])]
    ELSE [ok |-> FALSE,
          reg |-> Append(reg, [bus_id |-> bundle.bus_id,
                               devices |-> <<bundle.devices[1]>>])]

\* a registration that does not compare the ids with the registered ones
register_bundle_unchecked(reg, bundle) ==
    IF \/ Len(reg) >= RegistryBusCapacity
       \/ Len(bundle.devices) = 0
       \/ Len(bundle.devices) > RegistryDevCapacity
      THEN [ok |-> FALSE, reg |-> reg]
      ELSE [ok |-> TRUE,
            reg |-> Append(reg, [bus_id |-> bundle.bus_id,
                                 devices |-> bundle.devices])]

\* register_bundle: refused without any change when the registry is full,
\* the device list is empty or too long, the bus id is registered already or
\* a device id is repeated; otherwise the bus and all its devices are stored
register_bundle(reg, bundle) ==
    IF \/ Len(reg) >= RegistryBusCapacity
       \/ Len(bundle.devices) = 0
       \/ Len(bundle.devices) > RegistryDevCapacity
       \/ FindBus(reg, bundle.bus_id, 1) /= 0
       \/ \E j \in 1..Len(bundle.devices) :
            FindDev(bundle.devices, bundle.devices[j], 1) /= j
      THEN [ok |-> FALSE, reg |-> reg]
      ELSE [ok |-> TRUE,
            reg |-> Append(reg, [bus_id |-> bundle.bus_id,
                                 devices |-> bundle.devices])]

\* canif_register_bundle(bundle)
canif_register_bundle ==
    /\ \E bundle \in Bundles :
        LET r == register_bundle(registry, bundle) IN
        /\ registry' = r.reg
        /\ reg_before' = registry
        /\ reg_call' = [NoRegCall EXCEPT !.op = "register",
                           !.bus_id = bundle.bus_id,
                           !.devices = bundle.devices, !.ret = r.ok]
    /\ dev_ops' = <<>>
    /\ UNCHANGED <<rxVars, initVars, beVars, tgtVars, pollVars, frmVars, multi_api, extVars>>

\* a clear that drops the devices and keeps the bus entries
clear_registry_devices(reg) ==
    [i \in 1..Len(reg) |-> [bus_id |-> reg[i].bus_id, devices |-> <<>>]]

\* the registry after canif_clear_registry: no entry is left
clear_registry(reg) == <<>>

\* canif_clear_registry()
canif_clear_registry ==
    /\ registry' = clear_registry(registry)
    /\ reg_before' = registry
    /\ reg_call' = [NoRegCall EXCEPT !.op = "clear", !.ret = TRUE]
    /\ dev_ops' = <<>>
    /\ UNCHANGED <<rxVars, initVars, beVars, tgtVars, pollVars, frmVars, multi_api, extVars>>

\* canif_bus_get_by_id(bus_id), called by the application
lookup_bus ==
    /\ \E bus_id \in LookupBusIds :
        reg_call' = [NoRegCall EXCEPT !.op = "bus_get", !.bus_id = bus_id,
                        !.bus_h = canif_bus_get_by_id(registry, bus_id),
                        !.ret = (canif_bus_get_by_id(registry, bus_id) /= 0)]
    /\ dev_ops' = <<>>
    /\ reg_before' = registry
    /\ UNCHANGED <<rxVars, initVars, beVars, tgtVars, pollVars, frmVars, multi_api, registry, extVars>>

\* canif_dev_get_by_id(bus_id, dev_id), called by the application
lookup_dev ==
    /\ \E bus_id \in LookupBusIds, dev_id \in LookupDevIds :
        LET h == canif_dev_get_by_id(registry, bus_id, dev_id) IN
        reg_call' = [NoRegCall EXCEPT !.op = "dev_get", !.bus_id = bus_id,
                        !.dev_id = dev_id, !.dev_h = h,
                        !.ret = (h /= NullDev)]
    /\ dev_ops' = <<>>
    /\ reg_before' = registry
    /\ UNCHANGED <<rxVars, initVars, beVars, tgtVars, pollVars, frmVars, multi_api, registry, extVars>>

\* the adapter operation of the device record behind handle h, invoked once
adapter_op(reg, kind, h) ==
    << <<kind, reg[h[1]].bus_id, reg[h[1]].devices[h[2]]>> >>

\* canif_send_to / canif_receive_from: the adapter operation of exactly the
\* device behind the handle, NotFound (false) for a handle that is not live
route(reg, kind, h, done) ==
    IF canif_is_valid_device(reg, h)
      THEN [ops |-> adapter_op(reg, kind, h), ret |-> done]
      ELSE [ops |-> <<>>, ret |-> FALSE]

\* canif_send_to(dev, msg), canif_receive_from(dev, msg)
canif_call_handle ==
    /\ \E kind \in {"send", "receive"}, h \in DevHandles, done \in BOOLEAN :
        LET r == route(registry, kind, h, done) IN
        /\ dev_ops' = r.ops
        /\ reg_call' = [NoRegCall EXCEPT !.op = kind \o "_to", !.dev_h = h,
                           !.ret = r.ret]
    /\ reg_before' = registry
    /\ UNCHANGED <<rxVars, initVars, beVars, tgtVars, pollVars, frmVars, multi_api, registry, extVars>>

\* canif_send_id(bus_id, dev_id, msg), canif_receive_id(bus_id, dev_id, msg)
canif_call_id ==
    /\ \E kind \in {"send", "receive"}, bus_id \in LookupBusIds,
          dev_id \in LookupDevIds, done \in BOOLEAN :
        LET h == canif_dev_get_by_id(registry, bus_id, dev_id)
            r == route(registry, kind, h, done)
        IN
        /\ dev_ops' = r.ops
        /\ reg_call' = [NoRegCall EXCEPT !.op = kind \o "_id",
                           !.bus_id = bus_id, !.dev_id = dev_id,
                           !.dev_h = h, !.ret = r.ret]
    /\ reg_before' = registry
    /\ UNCHANGED <<rxVars, initVars, beVars, tgtVars, pollVars, frmVars, multi_api, registry, extVars>>

\* canif_send_target(target, msg), canif_receive_target(target, msg)
canif_call_target ==
    /\ \E kind \in {"send", "receive"}, t \in TargetArgs, done \in BOOLEAN :
        LET h == canif_dev_get_by_id(registry, can_target_bus_id(t),
                                     can_target_dev_id(t))
            r == route(registry, kind, h, done)
        IN
        /\ dev_ops' = r.ops
        /\ reg_call' = [NoRegCall EXCEPT !.op = kind \o "_target",
                           !.target = t, !.dev_h = h, !.ret = r.ret]
    /\ reg_before' = registry
    /\ UNCHANGED <<rxVars, initVars, beVars, tgtVars, pollVars, frmVars, multi_api, registry, extVars>>

RegistryIdle ==
    /\ registry = <<>>
    /\ reg_before = <<>>
    /\ reg_call = NoRegCall
    /\ dev_ops = <<>>

NextRegistry ==
    \/ canif_register_bundle
    \/ canif_clear_registry
    \/ lookup_bus
    \/ lookup_dev
    \/ canif_call_handle
    \/ canif_call_id
    \/ canif_call_target

\* calls of the index-based adapter
NextMultiAdapter ==
    \/ mcp2515_multi_init
    \/ mcp2515_multi_deinit
    \/ mcp2515_multi_send
    \/ mcp2515_multi_receive

\* receive path of the TWAI adapter with its driver
NextTwaiReceive ==
    \/ TwaiBusOff
    \/ TwaiRecoveryCompletes
    \/ TwaiFrameIn
    \/ can_twai_init
    \/ can_twai_deinit
    \/ can_twai_receive

\* receive path of the index-based adapter with its controllers
NextMultiReceive ==
    \/ mcp2515_multi_init
    \/ mcp2515_multi_deinit
    \/ mcp2515_multi_receive
    \/ McpMultiFrameIn

\* an application is built either on the canif_* interface or on the
\* index-based adapter
NextRouting ==
    \/ multi_api = "canif" /\ NextRegistry
    \/ multi_api = "adapter" /\ NextMultiAdapter

\* =====================================================================
\* Frame conversions of the three adapters, applied to one input
\* =====================================================================
\* identifiers: standard ones up to 0x7FF, 0x800, extended ones up to
\* 0x1FFFFFFF
FrameIds == {0, 291, 2047, 2048, 74565, 536870911}

\* data bytes of the frame that is converted
SrcData == <<17, 34, 51, 68, 85, 102, 119, 136>>

\* what a buffer that was not written yet may hold
DirtyData == {[i \in 1..CAN_MAX_DLEN |-> 238], [i \in 1..CAN_MAX_DLEN |-> 0]}

\* messages handed to send (can_message_t, twai_message_t); id holds bits
\* 0..30 of the identifier word and id_b31 its bit 31
FrameMsgs ==
    [id : FrameIds, id_b31 : {FALSE}, extd : BOOLEAN,
     dlc : 0..CAN_MAX_DLEN, data : {SrcData}]

\* the buffer of the caller before receive fills it
DirtyMsgs ==
    [id : {1365}, id_b31 : {FALSE}, extd : BOOLEAN, dlc : {0},
     data : DirtyData]

\* CAN_FRAME values the MCP2515 library returns: bit 31 of can_id marks an
\* extended frame
CanFrames ==
    [can_id : ([b31 : {FALSE}, low : {0, 291, 2047}]
               \cup [b31 : {TRUE}, low : {0, 74565, 536870911}]),
     can_dlc : 0..CAN_MAX_DLEN, data : {SrcData}]

\* twai_message_t values the TWAI driver returns
TwaiFrames ==
    {m \in FrameMsgs : m.extd \/ m.id <= 2047}

NoFrame == [can_id |-> [b31 |-> FALSE, low |-> 0], can_dlc |-> 0,
            data |-> [i \in 1..CAN_MAX_DLEN |-> 0]]

\* for (i = 0; i < n; i++) dst[i] = src[i];  and memcpy(dst, src, n)
copy_bytes(src, n, dst) ==
    [i \in 1..CAN_MAX_DLEN |-> IF i <= n THEN src[i] ELSE dst[i]]

\* to_frame with the data bytes; the CAN_FRAME is a local of
\* mcp2515_multi_send that is not initialised
multi_to_frame(m, stack) ==
    LET f == to_frame(m) IN
    [can_id |-> f.can_id, can_dlc |-> f.can_dlc,
     data |-> copy_bytes(m.data, f.copied, stack)]

\* from_frame with the data bytes, into the buffer of the caller
multi_from_frame(f, buf) ==
    LET r == from_frame(f) IN
    [id |-> r.id, id_b31 |-> FALSE, extd |-> r.extd, dlc |-> r.dlc,
     data |-> copy_bytes(f.data, f.can_dlc, buf.data)]

\* can_twai_send lines 96-105: twai_message_t msg = {.flags = 0,
\* .identifier = id, .data_length_code = dlc, .data = {0}}; memcpy
twai_send_frame(m, stack) ==
    [id |-> m.id, id_b31 |-> m.id_b31, extd |-> FALSE, dlc |-> m.dlc,
     data |-> copy_bytes(m.data, m.dlc, [i \in 1..CAN_MAX_DLEN |-> 0])]

\* can_twai_receive lines 153-157: id, dlc and the data bytes are written
twai_receive_msg(f, buf) ==
    [buf EXCEPT !.id = f.id, !.id_b31 = f.id_b31, !.dlc = f.dlc,
                !.data = copy_bytes(f.data, f.dlc, buf.data)]

\* mcp2515_single_send lines 425-428: can_id = id, can_dlc = dlc, memcpy
single_send_frame(m, stack) ==
    [can_id |-> [b31 |-> m.id_b31, low |-> m.id], can_dlc |-> m.dlc,
     data |-> copy_bytes(m.data, m.dlc, stack)]

\* mcp2515_single_receive lines 490-492: id = can_id, dlc = can_dlc, memcpy
single_receive_msg(f, buf) ==
    [buf EXCEPT !.id = f.can_id.low, !.id_b31 = f.can_id.b31,
                !.dlc = f.can_dlc,
                !.data = copy_bytes(f.data, f.can_dlc, buf.data)]

\* send builds the frame of the controller or driver from the message
frame_build ==
    /\ frm_pc = "msg"
    /\ frm_wire' = CASE frm_kind = "multi" -> multi_to_frame(frm_in, frm_stack)
                     [] frm_kind = "twai" -> twai_send_frame(frm_in, frm_stack)
                     [] OTHER -> single_send_frame(frm_in, frm_stack)
    /\ frm_pc' = "built"
    /\ UNCHANGED <<rxVars, initVars, beVars, regVars, tgtVars, pollVars, extVars>>
    /\ UNCHANGED <<frm_kind, frm_in, frm_stack, frm_out>>

\* receive fills the buffer of the caller from a frame: the frame a send
\* built, or a frame of the controller or driver
frame_fill ==
    /\ frm_pc \in {"built", "wire"}
    /\ frm_out' = CASE frm_kind = "multi" -> multi_from_frame(frm_wire, frm_out)
                    [] frm_kind = "twai" -> twai_receive_msg(frm_wire, frm_out)
                    [] OTHER -> single_receive_msg(frm_wire, frm_out)
    /\ frm_pc' = IF frm_pc = "built" THEN "round" ELSE "filled"
    /\ UNCHANGED <<rxVars, initVars, beVars, regVars, tgtVars, pollVars, extVars>>
    /\ UNCHANGED <<frm_kind, frm_in, frm_stack, frm_wire>>

FrameIdle ==
    /\ frm_kind = "multi"
    /\ frm_pc = "idle"
    /\ frm_in = [id |-> 0, id_b31 |-> FALSE, extd |-> FALSE, dlc |-> 0,
                 data |-> [i \in 1..CAN_MAX_DLEN |-> 0]]
    /\ frm_stack = [i \in 1..CAN_MAX_DLEN |-> 0]
    /\ frm_wire = NoFrame
    /\ frm_out = [id |-> 0, id_b31 |-> FALSE, extd |-> FALSE, dlc |-> 0,
                  data |-> [i \in 1..CAN_MAX_DLEN |-> 0]]

\* a message to send, or a received frame to hand to the caller
FrameInputs ==
    /\ frm_kind \in {"multi", "twai", "single"}
    /\ frm_stack \in DirtyData
    /\ frm_out \in DirtyMsgs
    /\ \/ /\ frm_pc = "msg"
          /\ frm_in \in FrameMsgs
          /\ frm_wire = NoFrame
       \/ /\ frm_pc = "wire"
          /\ frm_in = [id |-> 0, id_b31 |-> FALSE, extd |-> FALSE, dlc |-> 0,
                       data |-> [i \in 1..CAN_MAX_DLEN |-> 0]]
          /\ frm_wire \in IF frm_kind = "twai" THEN TwaiFrames ELSE CanFrames

NextFrame ==
    \/ frame_build
    \/ frame_fill

\* =====================================================================
\* Polling loop of examples/multi/receive_poll_multi.c
\* =====================================================================
\* canif_bus_device_count(canif_bus_default())
poll_device_count == poll_devs

\* canif_device_at(bus, i): the device at position i of the bus
canif_device_at(i) == i + 1

\* canif_receive_from(dev, &msg): takes the oldest frame waiting in the
\* controller of the device, if there is one
canif_receive_from(rx, dev) ==
    IF dev \in DOMAIN rx /\ rx[dev] /= <<>>
      THEN [ok |-> TRUE, taken |-> <<Head(rx[dev])>>,
            rx |-> [rx EXCEPT ![dev] = Tail(@)]]
      ELSE [ok |-> FALSE, taken |-> <<>>, rx |-> rx]

\* a loop that does not advance to the next device
poll_next_stay(i) == i

\* ++i of the for loop (line 24)
poll_next(i) == i + 1

\* a bus delivers a frame to the controller of one device
PollFrameIn ==
    /\ poll_arrived < MaxPollFrames
    /\ \E dev \in 1..poll_devs :
        /\ Len(poll_rx[dev]) < RxBufs
        /\ poll_rx' = [poll_rx EXCEPT
                          ![dev] = Append(@, <<dev - 1, poll_arrived + 1>>)]
    /\ poll_arrived' = poll_arrived + 1
    /\ UNCHANGED <<rxVars, initVars, beVars, regVars, tgtVars, frmVars, extVars>>
    /\ UNCHANGED <<poll_pc, poll_devs, poll_n, poll_i, poll_log,
                   poll_delivered>>

\* lines 18-19: bus = canif_bus_default(); n = canif_bus_device_count(bus)
poll_start ==
    /\ poll_pc = "start"
    /\ poll_n' = poll_device_count
    /\ poll_i' = 0
    /\ poll_log' = <<>>
    /\ poll_pc' = "for"
    /\ UNCHANGED <<rxVars, initVars, beVars, regVars, tgtVars, frmVars, extVars>>
    /\ UNCHANGED <<poll_devs, poll_rx, poll_arrived, poll_delivered>>

\* lines 24-29: one iteration of the for loop
poll_device ==
    /\ poll_pc = "for"
    /\ poll_i < poll_n
    /\ LET r == canif_receive_from(poll_rx, canif_device_at(poll_i)) IN
        /\ poll_rx' = r.rx
        /\ poll_log' = Append(poll_log, <<poll_i, Len(r.taken)>>)
        /\ poll_delivered' = IF r.ok THEN poll_delivered \o r.taken
                               ELSE poll_delivered
    /\ poll_i' = poll_next(poll_i)
    /\ UNCHANGED <<rxVars, initVars, beVars, regVars, tgtVars, frmVars, extVars>>
    /\ UNCHANGED <<poll_pc, poll_devs, poll_n, poll_arrived>>

\* line 24 with i == n, line 30: the pass is over, the task sleeps
poll_sleep ==
    /\ poll_pc = "for"
    /\ ~(poll_i < poll_n)
    /\ poll_pc' = "sleep"
    /\ UNCHANGED <<rxVars, initVars, beVars, regVars, tgtVars, frmVars, extVars>>
    /\ UNCHANGED <<poll_devs, poll_n, poll_i, poll_rx, poll_arrived, poll_log,
                   poll_delivered>>

\* line 22: the next pass of while (1) starts with i = 0
poll_wake ==
    /\ poll_pc = "sleep"
    /\ poll_i' = 0
    /\ poll_log' = <<>>
    /\ poll_pc' = "for"
    /\ UNCHANGED <<rxVars, initVars, beVars, regVars, tgtVars, frmVars, extVars>>
    /\ UNCHANGED <<poll_devs, poll_n, poll_rx, poll_arrived, poll_delivered>>

PollIdle ==
    /\ poll_pc = "start"
    /\ poll_devs = 0
    /\ poll_n = 0
    /\ poll_i = 0
    /\ poll_rx = <<>>
    /\ poll_arrived = 0
    /\ poll_log = <<>>
    /\ poll_delivered = <<>>

\* init_hw has registered the devices of the default bus
PollInputs ==
    /\ poll_pc = "start"
    /\ poll_devs \in 0..MaxPollDevs
    /\ poll_n = 0
    /\ poll_i = 0
    /\ poll_rx = [dev \in 1..poll_devs |-> <<>>]
    /\ poll_arrived = 0
    /\ poll_log = <<>>
    /\ poll_delivered = <<>>

NextPoll ==
    \/ PollFrameIn
    \/ poll_start
    \/ poll_device
    \/ poll_sleep
    \/ poll_wake

\* =====================================================================
\* can_dispatch.c: the can_twai_* entry points of the MCP2515 builds
\* =====================================================================
\* the adapter function each entry point names (lines 54-69 and 87-102)
AdapterOp(be, entry) ==
    IF be = "MCP2515_SINGLE"
      THEN CASE entry = "can_twai_init" -> "mcp2515_single_init"
             [] entry = "can_twai_deinit" -> "mcp2515_single_deinit"
             [] entry = "can_twai_send" -> "mcp2515_single_send"
             [] OTHER -> "mcp2515_single_receive"
      ELSE CASE entry = "can_twai_init" -> "canif_multi_init_default"
             [] entry = "can_twai_deinit" -> "canif_multi_deinit_default"
             [] entry = "can_twai_send" -> "canif_multi_send_default"
             [] OTHER -> "canif_receive_default"

\* pointers a caller hands in: configurations, messages and buffers
DispatchArgs(entry) ==
    CASE entry = "can_twai_init" -> {"NULL", "cfg_a", "cfg_b"}
      [] entry = "can_twai_deinit" -> {"void"}
      [] entry = "can_twai_send" -> {"msg_a", "msg_b"}
      [] OTHER -> {"buf_a", "buf_b"}

\* the adapter behind the dispatcher, reduced to what a caller can tell:
\* whether it is open and how many frames it has sent and handed out
AdapterClosed == [open |-> FALSE, sent |-> 0, received |-> 0]

\* what an adapter operation may return, and the adapter state it leaves
adapter_outcomes(op, st) ==
    {[ret |-> FALSE, st |-> st]} \cup
    CASE op \in {"mcp2515_single_init", "canif_multi_init_default"} ->
           IF st.open THEN {}
           ELSE {[ret |-> TRUE, st |-> [st EXCEPT !.open = TRUE]]}
      [] op \in {"mcp2515_single_deinit", "canif_multi_deinit_default"} ->
           {[ret |-> TRUE, st |-> [st EXCEPT !.open = FALSE]]}
      [] op \in {"mcp2515_single_send", "canif_multi_send_default"} ->
           IF st.open /\ st.sent < MaxDispatched
             THEN {[ret |-> TRUE, st |-> [st EXCEPT !.sent = @ + 1]]}
             ELSE {}
      [] OTHER ->
           IF st.open /\ st.received < MaxDispatched
             THEN {[ret |-> TRUE, st |-> [st EXCEPT !.received = @ + 1]]}
             ELSE {}

\* a dispatcher that calls the adapter again when it reports a failure
forward_retry(op, arg, out) ==
    [log |-> IF out.ret THEN << <<op, arg>> >>
             ELSE << <<op, arg>>, <<op, arg>> >>,
     ret |-> out.ret, st |-> out.st]

\* return adapter_operation(arg): one call, its result handed back
forward(op, arg, out) ==
    [log |-> << <<op, arg>> >>, ret |-> out.ret, st |-> out.st]

\* body shared by the four entry points
dispatch(entry) ==
    /\ backend \in {"MCP2515_SINGLE", "MCP2515_MULTI"}
    /\ \E arg \in DispatchArgs(entry) :
       \E out \in adapter_outcomes(AdapterOp(backend, entry), adp_state) :
        LET r == forward(AdapterOp(backend, entry), arg, out) IN
        /\ dsp_call' = [entry |-> entry, arg |-> arg]
        /\ dsp_log' = r.log
        /\ dsp_ret' = IF r.ret THEN "true" ELSE "false"
        /\ adp_state' = r.st
        /\ adp_ret' = IF out.ret THEN "true" ELSE "false"
        /\ adp_after' = out.st
    /\ UNCHANGED <<rxVars, initVars, beVars, regVars, tgtVars, pollVars, frmVars>>
    /\ UNCHANGED <<busVars, ownVars, statVars>>

dispatch_can_twai_init == dispatch("can_twai_init")

dispatch_can_twai_deinit == dispatch("can_twai_deinit")

dispatch_can_twai_send == dispatch("can_twai_send")

dispatch_can_twai_receive == dispatch("can_twai_receive")

DispatchIdle ==
    /\ dsp_call = [entry |-> "none", arg |-> "void"]
    /\ dsp_log = <<>>
    /\ dsp_ret = "none"
    /\ adp_state = AdapterClosed
    /\ adp_ret = "none"
    /\ adp_after = AdapterClosed

NextDispatch ==
    \/ dispatch_can_twai_init
    \/ dispatch_can_twai_deinit
    \/ dispatch_can_twai_send
    \/ dispatch_can_twai_receive


\* =====================================================================
\* examples_utils.c: process_received_message
\* =====================================================================
TEST_MSG_ID == 1

CAN_MSG_WITH_TWO_UINT32_ID == 2

SENDER_ID_1 == 1

END_TAG_ID == 255

\* messages the consumer hands over: id, sender_id (data[0]) and heartbeat
\* (data[1]), with heartbeats around the wrap and half-way; other ids carry
\* no test payload
StatMessages ==
    [id : {TEST_MSG_ID}, sender_id : {SENDER_ID_1, END_TAG_ID},
     heartbeat : {0, 1, 128, 255}]
    \cup [id : {CAN_MSG_WITH_TWO_UINT32_ID}, sender_id : {0}, heartbeat : {0}]

\* return heartbeat + 1 as uint8_t
next_heartbeat(heartbeat) == (heartbeat + 1) % 256

\* int16_t delta = heartbeat - expected, folded into -127..127 (lines 169-171)
heartbeat_delta(heartbeat, expected) ==
    LET d == heartbeat - expected
        d1 == IF d < -127 THEN d + 256 ELSE d
    IN  IF d1 > 127 THEN d1 - 256 ELSE d1

\* process_received_message(message, print_during_receive), message != NULL
process_received_message ==
    /\ timer_us < MaxStatMessages + 1
    /\ \E m \in StatMessages, print_during_receive \in BOOLEAN :
        LET now == timer_us + 1
            delta == heartbeat_delta(m.heartbeat, expected_heartbeat)
            first == seq_start_time_us = 0
            rx == IF first THEN 0 ELSE seq_rx_count + 1
            ok == IF delta = 0 THEN seq_ok_in_order + 1 ELSE seq_ok_in_order
            lost == IF delta > 0 THEN seq_lost + delta ELSE seq_lost
            ooo == IF delta < 0 THEN seq_out_of_order_or_dup + 1
                   ELSE seq_out_of_order_or_dup
        IN
        /\ timer_us' = now
        /\ stat_last' = m
        /\ count_of_messages_for_log' =
              IF print_during_receive THEN count_of_messages_for_log
              ELSE count_of_messages_for_log + 1
        /\ IF m.id /= TEST_MSG_ID
             THEN UNCHANGED <<seq_rx_count, seq_ok_in_order, seq_lost,
                              seq_out_of_order_or_dup, seq_start_time_us,
                              expected_heartbeat, stat_seen, stat_report>>
             ELSE /\ expected_heartbeat' = next_heartbeat(m.heartbeat)
                  /\ IF m.sender_id = END_TAG_ID
                       THEN /\ stat_report' =
                                 [printed |-> TRUE, frames |-> rx,
                                  in_order |-> ok, lost |-> lost,
                                  out_of_order |-> ooo,
                                  seen |-> stat_seen + 1]
                            /\ seq_rx_count' = 0
                            /\ seq_ok_in_order' = 0
                            /\ seq_lost' = 0
                            /\ seq_out_of_order_or_dup' = 0
                            /\ seq_start_time_us' = now
                            /\ stat_seen' = 0
                       ELSE /\ seq_rx_count' = rx
                            /\ seq_ok_in_order' = ok
                            /\ seq_lost' = lost
                            /\ seq_out_of_order_or_dup' = ooo
                            /\ seq_start_time_us' =
                                 IF first THEN now ELSE seq_start_time_us
                            /\ stat_seen' = stat_seen + 1
                            /\ UNCHANGED stat_report
    /\ UNCHANGED <<rxVars, initVars, beVars, regVars, tgtVars, pollVars, frmVars>>
    /\ UNCHANGED <<dspVars, busVars, ownVars>>

\* the statics of examples_utils.c at start; the timer has been running
StatsIdle ==
    /\ count_of_messages_for_log = 0
    /\ seq_rx_count = 0
    /\ seq_ok_in_order = 0
    /\ seq_lost = 0
    /\ seq_out_of_order_or_dup = 0
    /\ seq_start_time_us = 0
    /\ expected_heartbeat = 0
    /\ timer_us = 1
    /\ stat_last = [id |-> 0, sender_id |-> 0, heartbeat |-> 0]
    /\ stat_seen = 0
    /\ stat_report = [printed |-> FALSE, frames |-> 0, in_order |-> 0,
                      lost |-> 0, out_of_order |-> 0, seen |-> 0]

\* =====================================================================
\* SPI bus set-up of mcp2515_single_init (lines 140-152) with
\* mcp_spi_bus_to_idf of mcp2515_multi_if.h
\* =====================================================================
\* spi_common_dma_t: SPI_DMA_DISABLED, SPI_DMA_CH1, SPI_DMA_CH2,
\* SPI_DMA_CH_AUTO
SPI_DMA_CH_AUTO == 3

\* mcp_spi_bus_config_t: two wirings (mcp_spi_bus_wiring_t) that differ in
\* every pin, and the parameters (mcp_spi_bus_params_t); host 1 and 2 are
\* SPI2_HOST and SPI3_HOST
BusConfigs ==
    [wiring : {[miso_io_num |-> 19, mosi_io_num |-> 23, sclk_io_num |-> 18,
                quadwp_io_num |-> -1, quadhd_io_num |-> -1],
               [miso_io_num |-> 12, mosi_io_num |-> 13, sclk_io_num |-> 14,
                quadwp_io_num |-> 2, quadhd_io_num |-> 4]},
     params : [host : {1, 2}, max_transfer_sz : {0, 4096}, flags : {0, 1},
               dma_chan : 0..SPI_DMA_CH_AUTO, intr_flags : {0},
               isr_cpu_id : {0}]]

IdfBusCfgs(word) ==
    [miso_io_num |-> word, mosi_io_num |-> word, sclk_io_num |-> word,
     quadwp_io_num |-> word, quadhd_io_num |-> word,
     max_transfer_sz |-> word, flags |-> word, intr_flags |-> word,
     isr_cpu_id |-> word]

NoSpiInit == [called |-> FALSE, host |-> 0, bus_cfg |-> IdfBusCfgs(0),
              dma_chan |-> 0]

\* mcp_spi_bus_to_idf: the fields it stores; the others keep what they held
mcp_spi_bus_to_idf(src, out) ==
    [host |-> src.params.host,
     dma_chan |-> src.params.dma_chan,
     bus_cfg |-> [out EXCEPT !.miso_io_num = src.wiring.miso_io_num,
                             !.mosi_io_num = src.wiring.mosi_io_num,
                             !.sclk_io_num = src.wiring.sclk_io_num,
                             !.quadwp_io_num = src.wiring.quadwp_io_num,
                             !.quadhd_io_num = src.wiring.quadhd_io_num,
                             !.max_transfer_sz = src.params.max_transfer_sz,
                             !.flags = src.params.flags,
                             !.intr_flags = src.params.intr_flags]]

\* line 144: the conversion fills the three locals
bus_map ==
    /\ bus_pc = "cfg"
    /\ LET r == mcp_spi_bus_to_idf(bus_cfg, idf_bus_cfg) IN
        /\ bus_host' = r.host
        /\ bus_dma_chan' = r.dma_chan
        /\ idf_bus_cfg' = r.bus_cfg
    /\ bus_pc' = "mapped"
    /\ UNCHANGED <<rxVars, initVars, beVars, regVars, tgtVars, pollVars, frmVars>>
    /\ UNCHANGED <<dspVars, ownVars, statVars, bus_cfg, spi_init_args>>

\* line 148: spi_bus_initialize(host, &idf_bus_cfg, SPI_DMA_CH_AUTO)
bus_initialize ==
    /\ bus_pc = "mapped"
    /\ spi_init_args' = [called |-> TRUE, host |-> bus_host,
                         bus_cfg |-> idf_bus_cfg, dma_chan |-> SPI_DMA_CH_AUTO]
    /\ \E ok \in BOOLEAN : bus_pc' = IF ok THEN "initialized" ELSE "rejected"
    /\ UNCHANGED <<rxVars, initVars, beVars, regVars, tgtVars, pollVars, frmVars>>
    /\ UNCHANGED <<dspVars, ownVars, statVars, bus_cfg, idf_bus_cfg, bus_host,
                   bus_dma_chan>>

BusIdle ==
    /\ bus_pc = "idle"
    /\ bus_cfg = [wiring |-> [miso_io_num |-> 0, mosi_io_num |-> 0,
                              sclk_io_num |-> 0, quadwp_io_num |-> 0,
                              quadhd_io_num |-> 0],
                  params |-> [host |-> 0, max_transfer_sz |-> 0, flags |-> 0,
                              dma_chan |-> 0, intr_flags |-> 0,
                              isr_cpu_id |-> 0]]
    /\ idf_bus_cfg = IdfBusCfgs(0)
    /\ bus_host = 0
    /\ bus_dma_chan = 0
    /\ spi_init_args = NoSpiInit

\* a valid bundle has been accepted; the locals hold what the stack held
\* (all bytes 0 or all bytes 0xEE)
BusInputs ==
    /\ bus_pc = "cfg"
    /\ bus_cfg \in BusConfigs
    /\ \E word \in {0, 238} :
        /\ idf_bus_cfg = IdfBusCfgs(word)
        /\ bus_host = word
        /\ bus_dma_chan = word
    /\ spi_init_args = NoSpiInit

NextBus ==
    \/ bus_map
    \/ bus_initialize

OwnIdle ==
    /\ init_owned = {}
    /\ destroy_log = <<>>

ExtIdle == DispatchIdle /\ BusIdle /\ OwnIdle /\ StatsIdle

RxInit ==
    /\ rxb = <<>>
    /\ eflg = {}
    /\ errif = FALSE
    /\ irq_latched = FALSE
    /\ next_seq = 0
    /\ bus_errors = 0
    /\ interrupt_pending = FALSE
    /\ spi_log = <<>>
    /\ rx_pc = "recv_entry"
    /\ msg = NoMsg
    /\ received_any = FALSE
    /\ rx_queue = <<>>
    /\ drop_events = 0
    /\ read_log = <<>>
    /\ offered = <<>>
    /\ discarded = <<>>
    /\ rejected = 0
    /\ processed = <<>>

\* the pipeline example and mcp2515_single_init belong to the MCP2515
\* single build
Init ==
    /\ RxInit /\ InitIdle /\ BackendIdle /\ RegistryIdle /\ TargetIdle
    /\ FrameIdle /\ PollIdle /\ ExtIdle
    /\ backend = "MCP2515_SINGLE"
    /\ multi_api = "canif"

InitBackend ==
    /\ RxInit /\ InitIdle /\ BackendIdle /\ RegistryIdle /\ TargetIdle
    /\ FrameIdle /\ PollIdle /\ ExtIdle
    /\ backend \in Backends
    /\ multi_api = "adapter"

InitRouting ==
    /\ RxInit /\ InitIdle /\ BackendIdle /\ RegistryIdle /\ TargetIdle
    /\ FrameIdle /\ PollIdle /\ ExtIdle
    /\ backend = "MCP2515_MULTI"
    /\ multi_api \in {"canif", "adapter"}

InitTarget ==
    /\ RxInit /\ InitIdle /\ BackendIdle /\ RegistryIdle /\ TargetInputs
    /\ FrameIdle /\ PollIdle /\ ExtIdle
    /\ backend = "MCP2515_MULTI"
    /\ multi_api = "canif"

InitFrame ==
    /\ RxInit /\ InitIdle /\ BackendIdle /\ RegistryIdle /\ TargetIdle
    /\ FrameInputs /\ PollIdle /\ ExtIdle
    /\ backend = "MCP2515_MULTI"
    /\ multi_api = "canif"

\* the dispatcher exists in the two MCP2515 builds only
InitDispatch ==
    /\ RxInit /\ InitIdle /\ BackendIdle /\ RegistryIdle /\ TargetIdle
    /\ FrameIdle /\ PollIdle /\ ExtIdle
    /\ backend \in {"MCP2515_SINGLE", "MCP2515_MULTI"}
    /\ multi_api = "canif"

InitBus ==
    /\ RxInit /\ InitIdle /\ BackendIdle /\ RegistryIdle /\ TargetIdle
    /\ FrameIdle /\ PollIdle /\ DispatchIdle /\ BusInputs /\ OwnIdle
    /\ StatsIdle
    /\ backend = "MCP2515_SINGLE"
    /\ multi_api = "canif"

\* an application built on the index-based multi adapter
InitMulti ==
    /\ RxInit /\ InitIdle /\ BackendIdle /\ RegistryIdle /\ TargetIdle
    /\ FrameIdle /\ PollIdle /\ ExtIdle
    /\ backend = "MCP2515_MULTI"
    /\ multi_api = "adapter"

InitStats ==
    /\ RxInit /\ InitIdle /\ BackendIdle /\ RegistryIdle /\ TargetIdle
    /\ FrameIdle /\ PollIdle /\ ExtIdle
    /\ backend = "MCP2515_SINGLE"
    /\ multi_api = "canif"

InitPoll ==
    /\ RxInit /\ InitIdle /\ BackendIdle /\ RegistryIdle /\ TargetIdle
    /\ FrameIdle /\ PollInputs /\ ExtIdle
    /\ backend = "MCP2515_MULTI"
    /\ multi_api = "canif"

Next ==
    \/ FrameArrives
    \/ BusErrorRaised
    \/ BusErrorGone
    \/ isr_handler
    \/ receive_entry
    \/ receive_check_error
    \/ receive_clear_error
    \/ receive_read
    \/ receive_clear_interrupts
    \/ receive_drain_check
    \/ receive_drain_read
    \/ receive_done
    \/ producer_enqueue
    \/ producer_yield
    \/ can_rx_consumer_task

Spec == Init /\ [][Next]_vars

\* the pipeline on a bus without error conditions and malformed frames
NextConsumer ==
    \/ FrameArrivesValid
    \/ isr_handler
    \/ receive_entry
    \/ receive_check_error
    \/ receive_clear_error
    \/ receive_read
    \/ receive_clear_interrupts
    \/ receive_drain_check
    \/ receive_drain_read
    \/ receive_done
    \/ producer_enqueue
    \/ producer_yield
    \/ can_rx_consumer_task

\* the consumer task blocks in xQueueReceive(portMAX_DELAY) and is made
\* ready whenever the queue holds a frame; the producer sleeps a tick when it
\* finds nothing, so the consumer gets to run
SpecConsumer ==
    Init /\ [][NextConsumer]_vars /\ WF_vars(can_rx_consumer_task)

SpecInit == Init /\ [][NextInit]_vars

SpecBackend == InitBackend /\ [][NextBackend]_vars

SpecTarget == InitTarget /\ [][NextTarget]_vars

SpecFrame == InitFrame /\ [][NextFrame]_vars

SpecPoll == InitPoll /\ [][NextPoll]_vars

SpecDispatch == InitDispatch /\ [][NextDispatch]_vars

SpecBus == InitBus /\ [][NextBus]_vars

SpecStats == InitStats /\ [][process_received_message]_vars

\* the four operations of the multi adapter, called in any order
SpecMulti == InitMulti /\ [][NextMultiAdapter]_vars

SpecRouting == InitRouting /\ [][NextRouting]_vars

\* the receive path of the backend the build selects
NextReceive ==
    \/ backend = "MCP2515_SINGLE" /\ Next
    \/ backend = "TWAI" /\ NextTwaiReceive
    \/ backend = "MCP2515_MULTI" /\ NextMultiReceive

SpecReceive == InitBackend /\ [][NextReceive]_vars

TypeOK ==
    /\ rx_pc \in ReceivePcs \cup {"enqueue", "loop_exit"}
    /\ Len(rx_queue) <= QueueCap
    /\ Len(rxb) <= RxBufs
    /\ init_pc \in {"idle", "spi", "reset", "request", "poll1", "stable",
                    "filters", "masks", "reapply", "poll2", "gpio"}
    /\ init_ret \in {"none", "true", "false"}
    /\ attempt \in 0..ModePollAttempts

\* =====================================================================
\* Properties of the producer/consumer pipeline (Spec)
\* =====================================================================

\* C1: while no enqueue has been refused for lack of space, every frame the
\* producer path has read out of the controller is enqueued for the consumer
\* (it is in the queue or already processed) whenever the producer is between
\* two receive calls: no frame is read out and then discarded.  Stated for
\* the well-formed frames (dlc <= 8) only.
C1_NoReadFrameDiscarded ==
    (rejected = 0 /\ rx_pc = "recv_entry") =>
        {f \in Range(read_log) : f.dlc <= CAN_MAX_DLEN}
            \subseteq (Range(rx_queue) \cup Range(processed))

\* C2: the frames processed by the consumer are a subsequence of the frames
\* read by the producer, in the same order and without duplicates.
C2_ConsumerOrder == IsSubseq(processed, read_log) /\ NoDup(processed)

C2_Witness == Len(processed) >= 2 /\ Len(read_log) > Len(processed)

\* C3 (as stated): while the consumer has drained nothing, the queue holds
\* exactly the first QueueCap frames offered, the enqueue step is never
\* blocked, and every further frame has produced one recorded drop event.
C3_BackpressureCounted ==
    processed = <<>> =>
        /\ rx_queue = Prefix(offered, QueueCap)
        /\ (rx_pc = "enqueue" => ENABLED producer_enqueue)
        /\ drop_events = Len(offered) - Len(rx_queue)

\* C3 (amended): while the consumer has drained nothing, the queue holds
\* exactly the first QueueCap frames offered, the enqueue step is never
\* blocked, every further frame was refused by xQueueSend, and the producer
\* recorded no drop event for any of them.
C3_BackpressureSilent ==
    processed = <<>> =>
        /\ rx_queue = Prefix(offered, QueueCap)
        /\ (rx_pc = "enqueue" => ENABLED producer_enqueue)
        /\ rejected = Len(offered) - Len(rx_queue)
        /\ drop_events = 0

C3_Witness == processed = <<>> /\ Len(offered) > QueueCap /\ rejected > 0

\* C10: a step of the interrupt handler sets interrupt_pending and changes
\* nothing else (no controller register, no controller access, no task
\* state), and interrupt_pending goes back to false only in a step of
\* mcp2515_single_receive.
C10_IsrOnlySetsFlag ==
    [][ /\ (irq_latched /\ ~irq_latched') =>
            /\ interrupt_pending'
            /\ UNCHANGED <<rxb, eflg, errif, spi_log, rx_pc, msg, received_any,
                           rx_queue, drop_events, read_log, offered, discarded,
                           rejected, processed>>
        /\ (interrupt_pending /\ ~interrupt_pending') =>
            /\ rx_pc \in ReceivePcs
            /\ ~(irq_latched /\ ~irq_latched')
      ]_vars

C10_Witness ==
    interrupt_pending /\ ~irq_latched /\ rx_pc = "recv_done" /\ rxb /= <<>>

\* =====================================================================
\* Properties of mcp2515_single_init (SpecInit)
\* =====================================================================
\* CANSTAT reads of one poll loop of the current call
PollsOf(phase) ==
    SelectSeq(init_log, LAMBDA e : e[1] = "readCANSTAT" /\ e[2] = phase)

Misses(polls, want) == Cardinality({i \in 1..Len(polls) : polls[i][3] /= want})

\* configuration steps that follow the first mode switch
LaterSteps ==
    {i \in 1..Len(init_log) :
        init_log[i][1] \in {"setCANINTE", "setFilter", "setFilterMask",
                            "gpio_isr_setup"}}

\* C4: the first poll loop reads the mode register at most 10 times; when the
\* controller shows the requested mode after k < 10 mismatching polls the
\* mode switch succeeds (init goes on to the next step), and after 10
\* mismatching polls init returns false without programming CANINTE, a
\* filter, a mask or the interrupt.
C4_ModeSwitchBound ==
    LET polls == PollsOf("poll1")
        want == ModeBits(TargetMode(s_bundle))
        k == Misses(polls, want)
    IN  /\ Len(polls) <= 10
        /\ (Len(polls) > 0 /\ polls[Len(polls)][3] = want) =>
              /\ k < 10
              /\ init_pc /= "poll1"
              /\ init_fail /= "mode_switch"
        /\ k >= 10 =>
              /\ init_pc = "idle"
              /\ init_ret = "false"
              /\ init_fail = "mode_switch"
              /\ LaterSteps = {}
        /\ init_fail = "mode_switch" => (k = 10 /\ LaterSteps = {})

C4_Witness ==
    /\ init_pc = "idle"
    /\ init_ret = "false"
    /\ init_fail = "mode_switch"
    /\ Len(PollsOf("poll1")) = 10

\* C5: when init returns true, the 6 filters and 2 masks were programmed,
\* then the configured mode (loopback if use_loopback, else normal) was
\* written to CANCTRL again, then the mode register was polled at most 10
\* times and the last poll showed that mode; 10 mismatching polls make init
\* return false.
C5_ModeReapplied ==
    LET polls == PollsOf("poll2")
        want == ModeBits(TargetMode(s_bundle))
        req == {i \in 1..Len(init_log) :
                   init_log[i] = <<"modifyCANCTRL", "second", TargetMode(s_bundle)>>}
        prog == {i \in 1..Len(init_log) :
                   init_log[i][1] \in {"setFilter", "setFilterMask"}}
        reads == {i \in 1..Len(init_log) :
                   init_log[i][1] = "readCANSTAT" /\ init_log[i][2] = "poll2"}
    IN  /\ Len(polls) <= 10
        /\ (init_pc = "idle" /\ init_ret = "true") =>
              /\ Count(init_log, "setFilter") = 6
              /\ Count(init_log, "setFilterMask") = 2
              /\ Cardinality(req) = 1
              /\ \A r \in req : (\A i \in prog : i < r) /\ (\A i \in reads : r < i)
              /\ Len(polls) >= 1
              /\ polls[Len(polls)][3] = want
              /\ Misses(polls, want) < 10
        /\ (init_pc = "idle" /\ init_fail = "mode_reapply") =>
              (init_ret = "false" /\ Misses(polls, want) = 10)

C5_Witness ==
    /\ init_pc = "idle"
    /\ init_ret = "true"
    /\ s_bundle.use_loopback
    /\ Len(PollsOf("poll2")) >= 2

\* =====================================================================
\* Properties of the TWAI adapter and of the send paths (SpecBackend)
\* =====================================================================
RecoveryCalls ==
    {"twai_get_status_info", "twai_initiate_recovery", "twai_stop",
     "twai_start", "vTaskDelay"}

Delays == {call_log[i][2] : i \in {j \in 1..Len(call_log) : call_log[j][1] = "vTaskDelay"}}

\* C6: a recovery check that finds the controller in BUS_OFF requests
\* recovery exactly once, waits no longer than bus_off_timeout, and the
\* controller is running when the check returns.
C6_RecoveryLeavesRunning ==
    last_call.seen = "BUS_OFF" =>
        /\ Count(call_log, "twai_initiate_recovery") = 1
        /\ \A d \in Delays : d <= twai_config.bus_off_timeout
        /\ last_call.post = "RUNNING"

\* C7: the recovery check reads the status once and then, by the state it
\* read: BUS_OFF - one recovery request, then a wait of bus_off_timeout;
\* another state that is not RUNNING - stop, a wait of
\* bus_not_running_timeout, start, in this order; RUNNING or no status -
\* nothing more.
C7_RecoveryActions ==
    last_call.seen /= "none" =>
        Tail(call_log) =
            IF last_call.seen = "BUS_OFF"
              THEN << <<"twai_get_status_info", 0>>,
                      <<"twai_initiate_recovery", 0>>,
                      <<"vTaskDelay", twai_config.bus_off_timeout>> >>
            ELSE IF last_call.seen \in {"RUNNING", "unreadable"}
              THEN << <<"twai_get_status_info", 0>> >>
            ELSE << <<"twai_get_status_info", 0>>,
                    <<"twai_stop", 0>>,
                    <<"vTaskDelay", twai_config.bus_not_running_timeout>>,
                    <<"twai_start", 0>> >>

C7_Witness ==
    /\ last_call.op = "send"
    /\ last_call.seen = "STOPPED"
    /\ last_call.post = "RUNNING"
    /\ twai_config.bus_not_running_timeout /= twai_config.bus_off_timeout

\* C8: on the TWAI backend an API call runs the recovery check once when it
\* is a send whose transmit failed or a receive that failed with something
\* other than a timeout, and not at all otherwise (successful send or
\* receive, receive timeout, send refused for dlc > 8, init, deinit).
C8_RecoveryOnlyAfterFailure ==
    backend = "TWAI" =>
        Count(call_log, "twai_get_status_info") =
            IF \/ /\ last_call.op = "send"
                  /\ last_call.dlc <= 8
                  /\ last_call.err /= "ESP_OK"
               \/ /\ last_call.op = "receive"
                  /\ last_call.err \notin {"ESP_OK", "ESP_ERR_TIMEOUT"}
              THEN 1 ELSE 0

C8_Witness ==
    /\ backend = "TWAI"
    /\ last_call.op = "receive"
    /\ last_call.err = "ESP_ERR_INVALID_STATE"
    /\ Count(call_log, "twai_get_status_info") = 1

\* a send that failed because of a hardware fault: the TWAI driver is not
\* running, or the MCP2515 reports a failed transmission
SendHardwareFault ==
    /\ last_call.op = "send"
    /\ last_call.err \in {"ESP_ERR_INVALID_STATE", "ERROR_FAILTX"}

\* C9 (as stated): in every backend a send that fails because of a hardware
\* fault returns failure and runs the recovery check.
C9_EveryBackendRecovers ==
    SendHardwareFault =>
        /\ last_call.ret = FALSE
        /\ Count(call_log, "twai_get_status_info") = 1

\* C9 (amended): a send that fails because of a hardware fault returns
\* failure in every backend; it runs the recovery check once on the TWAI
\* backend and makes no recovery call at all on the two MCP2515 backends.
C9_OnlyTwaiRecovers ==
    SendHardwareFault =>
        /\ last_call.ret = FALSE
        /\ backend = "TWAI" => Count(call_log, "twai_get_status_info") = 1
        /\ backend /= "TWAI" =>
              \A i \in 1..Len(call_log) : call_log[i][1] \notin RecoveryCalls

C9_Witness ==
    /\ backend = "TWAI"
    /\ SendHardwareFault
    /\ last_call.seen = "BUS_OFF"
    /\ Count(call_log, "twai_initiate_recovery") = 1

\* =====================================================================
\* Properties of routing, registry and addressing
\* =====================================================================
RoutingOps == {"send_to", "receive_to", "send_id", "receive_id",
               "send_target", "receive_target"}

\* some registered device carries the pair of ids
Resolves(bus_id, dev_id) ==
    \E i \in 1..Len(registry) :
        /\ registry[i].bus_id = bus_id
        /\ \E j \in 1..Len(registry[i].devices) :
            registry[i].devices[j] = dev_id

\* the handle points at a registered device
LiveHandle(h) ==
    /\ h[1] >= 1 /\ h[1] <= Len(registry)
    /\ h[2] >= 1 /\ h[2] <= Len(registry[h[1]].devices)

\* the pair of ids the last canif_* send or receive was addressed to
AddressedIds ==
    IF reg_call.op \in {"send_id", "receive_id"}
      THEN <<reg_call.bus_id, reg_call.dev_id>>
    ELSE IF reg_call.op \in {"send_target", "receive_target"}
      THEN <<reg_call.target \div 256, reg_call.target % 256>>
    ELSE IF LiveHandle(reg_call.dev_h)
      THEN <<registry[reg_call.dev_h[1]].bus_id,
             registry[reg_call.dev_h[1]].devices[reg_call.dev_h[2]]>>
    ELSE <<-1, -1>>

\* C11: routing isolation.  A send or receive addressed by handle, by id pair
\* or by composite target invokes the adapter operation at most once, and on
\* the device with exactly the addressed ids; a send or receive addressed by
\* instance index calls the controller library at most once, and with the
\* handle stored for exactly that index.
C11_RoutingIsolation ==
    /\ reg_call.op \in RoutingOps =>
        /\ Len(dev_ops) <= 1
        /\ \A k \in 1..Len(dev_ops) :
            <<dev_ops[k][2], dev_ops[k][3]>> = AddressedIds
    /\ (multi_api = "adapter" /\ last_call.op \in {"send", "receive"}) =>
        /\ Len(call_log) <= 1
        /\ \A k \in 1..Len(call_log) :
            /\ call_hist.index < g_count
            /\ call_hist.index + 1 \in DOMAIN g_handles
            /\ call_log[k][2] = g_handles[call_hist.index + 1]
            /\ call_log[k][2] /= 0

\* devices 10 and 11 are registered on bus 1 and send_id(1, 10, frame) has
\* reached device 10
C11_Witness ==
    /\ registry = << [bus_id |-> 1, devices |-> <<10, 11>>] >>
    /\ reg_call.op = "send_id"
    /\ reg_call.bus_id = 1
    /\ reg_call.dev_id = 10
    /\ dev_ops = << <<"send", 1, 10>> >>

\* C12: NotFound.  A send or receive whose id pair, composite target or
\* handle does not resolve to a registered device, or whose instance index
\* is not below the number of initialised instances (none before init),
\* returns false and invokes no adapter or controller operation at all.
C12_NotFound ==
    /\ (reg_call.op \in RoutingOps /\ ~Resolves(AddressedIds[1], AddressedIds[2]))
         => (~reg_call.ret /\ dev_ops = <<>>)
    /\ (/\ multi_api = "adapter"
        /\ last_call.op \in {"send", "receive"}
        /\ (~g_alloc \/ call_hist.index >= g_count))
         => (~last_call.ret /\ call_log = <<>>)

\* one instance is initialised and a send to index 1 was refused
C12_Witness ==
    /\ multi_api = "adapter"
    /\ g_alloc
    /\ g_count = 1
    /\ last_call.op = "send"
    /\ call_hist.index = 1
    /\ ~last_call.ret
    /\ call_log = <<>>

TransmitCalls == {"twai_transmit", "MCP2515_sendMessageAfterCtrlCheck",
                  "MCP2515_SendMessageAfterCtrlCheck"}

\* C13: TooLong.  In every backend a send of a frame with dlc > 8 returns
\* false, copies no more than 8 data bytes and issues no transmit to the
\* driver or controller.
C13_TooLongRejected ==
    (last_call.op = "send" /\ last_call.dlc > 8) =>
        /\ ~last_call.ret
        /\ call_hist.copied <= 8
        /\ \A k \in 1..Len(call_log) : call_log[k][1] \notin TransmitCalls

ReadsIn(log) == Cardinality({i \in 1..Len(log) : log[i] = "readMessage"})

C15_ReadsBounded == ReadsIn(spi_log) <= RxBufs

\* C16: bijection.  Unpacking the packed pair of ids gives the pair back, for
\* every bus id and device id in 0..255; packing the two projections of a
\* target gives the target back, for every 16-bit target.
C16_TargetBijection ==
    /\ tgt_pc = "unpacked" =>
        (tgt_out.bus = tgt_in.bus /\ tgt_out.dev = tgt_in.dev)
    /\ tgt_pc = "rejoined" => tgt_out.t = tgt_in.t

\* the target 0xABCD was split and packed again
C16_Witness ==
    /\ tgt_pc = "rejoined"
    /\ tgt_in.t = 43981
    /\ tgt_out.bus = 171
    /\ tgt_out.dev = 205

\* C17: can_target_from_ids(bus_id, dev_id) is bus_id * 256 + dev_id for every
\* pair in 0..255 x 0..255; for (1, 11) it is 0x010B, whose bus id is 1 and
\* whose device id is 11.
C17_TargetPacking ==
    /\ tgt_pc \in {"packed", "unpacked"} =>
        tgt_out.t = tgt_in.bus * 256 + tgt_in.dev
    /\ (tgt_pc \in {"packed", "unpacked"} /\ tgt_in.bus = 1 /\ tgt_in.dev = 11)
         => tgt_out.t = 267
    /\ (tgt_pc = "split" /\ tgt_in.t = 267) =>
        (tgt_out.bus = 1 /\ tgt_out.dev = 11)

\* the pair (1, 11) was packed into 0x010B
C17_Witness ==
    /\ tgt_pc = "packed"
    /\ tgt_in.bus = 1
    /\ tgt_in.dev = 11
    /\ tgt_out.t = 267

\* C18: registry atomicity.  A canif_register_bundle call that fails returns
\* false and leaves the registry as it was: same bus count, same device count
\* of every bus, same result of every lookup by id.  It fails when the
\* registry is full.  A call that succeeds appends the bus with all its
\* devices.
C18_RegistryAtomic ==
    reg_call.op = "register" =>
        /\ Len(reg_before) >= RegistryBusCapacity => ~reg_call.ret
        /\ ~reg_call.ret =>
            /\ canif_bus_count(registry) = canif_bus_count(reg_before)
            /\ \A b \in 1..RegistryBusCapacity :
                canif_bus_device_count(registry, b)
                    = canif_bus_device_count(reg_before, b)
            /\ \A b \in LookupBusIds :
                /\ canif_bus_get_by_id(registry, b)
                    = canif_bus_get_by_id(reg_before, b)
                /\ \A d \in LookupDevIds :
                    canif_dev_get_by_id(registry, b, d)
                        = canif_dev_get_by_id(reg_before, b, d)
        /\ reg_call.ret =>
            registry = Append(reg_before, [bus_id |-> reg_call.bus_id,
                                           devices |-> reg_call.devices])

\* a bundle was refused because the registry was full
C18_Witness ==
    /\ reg_call.op = "register"
    /\ ~reg_call.ret
    /\ Len(reg_before) = RegistryBusCapacity
    /\ registry = reg_before

\* C19: uniqueness.  No two registered buses share a bus id and no two
\* devices of one bus share a device id; registering a bundle whose bus id is
\* registered already, or whose device list repeats a device id, fails.
C19_Uniqueness ==
    /\ \A i, j \in 1..Len(registry) :
        registry[i].bus_id = registry[j].bus_id => i = j
    /\ \A i \in 1..Len(registry) : NoDup(registry[i].devices)
    /\ (/\ reg_call.op = "register"
        /\ \/ \E i \in 1..Len(reg_before) :
                reg_before[i].bus_id = reg_call.bus_id
           \/ ~NoDup(reg_call.devices))
         => ~reg_call.ret

\* a second bundle with the bus id of a registered bus was refused
C19_Witness ==
    /\ reg_call.op = "register"
    /\ ~reg_call.ret
    /\ Len(reg_before) = 1
    /\ reg_before[1].bus_id = reg_call.bus_id
    /\ NoDup(reg_call.devices)
    /\ Len(reg_call.devices) \in 1..RegistryDevCapacity

\* C20: canif_bus_get_by_id returns NULL exactly when no registered bus has
\* the id, canif_dev_get_by_id returns NULL exactly when no registered device
\* has the pair of ids; a handle that is not NULL is the registered record
\* with the ids asked for.
C20_LookupById ==
    /\ reg_call.op = "bus_get" =>
        /\ reg_call.bus_h = 0 <=>
            ~\E i \in 1..Len(registry) : registry[i].bus_id = reg_call.bus_id
        /\ reg_call.bus_h /= 0 =>
            /\ reg_call.bus_h \in 1..Len(registry)
            /\ registry[reg_call.bus_h].bus_id = reg_call.bus_id
    /\ reg_call.op = "dev_get" =>
        /\ reg_call.dev_h = NullDev <=>
            ~Resolves(reg_call.bus_id, reg_call.dev_id)
        /\ reg_call.dev_h /= NullDev =>
            /\ LiveHandle(reg_call.dev_h)
            /\ registry[reg_call.dev_h[1]].bus_id = reg_call.bus_id
            /\ registry[reg_call.dev_h[1]].devices[reg_call.dev_h[2]]
                 = reg_call.dev_id

\* the second device of the second bus was found by its ids
C20_Witness ==
    /\ reg_call.op = "dev_get"
    /\ reg_call.dev_h = <<2, 2>>
    /\ Len(registry) = 2

\* =====================================================================
\* Validity of handles, close, frame conversion, configuration errors
\* =====================================================================
\* bus handles of the registry model: positions, 0 is NULL
BusHandles == 0..RegistryBusCapacity

\* C21: canif_is_valid_bus and canif_is_valid_device are true only for the
\* handle of a currently registered entry (the handle a lookup of the entry's
\* ids returns); right after canif_clear_registry the bus count is 0, every
\* lookup by id returns NULL, every handle that was valid before the clear is
\* invalid, and the clear invoked no adapter operation (closed no device).
C21_ValidOnlyWhileRegistered ==
    /\ \A b \in BusHandles :
          canif_is_valid_bus(registry, b) =>
              canif_bus_get_by_id(registry, registry[b].bus_id) = b
    /\ \A h \in DevHandles :
          canif_is_valid_device(registry, h) =>
              canif_dev_get_by_id(registry, registry[h[1]].bus_id,
                                  registry[h[1]].devices[h[2]]) = h
    /\ reg_call.op = "clear" =>
          /\ canif_bus_count(registry) = 0
          /\ \A bus_id \in LookupBusIds :
                /\ canif_bus_get_by_id(registry, bus_id) = 0
                /\ \A dev_id \in LookupDevIds :
                      canif_dev_get_by_id(registry, bus_id, dev_id) = NullDev
          /\ \A b \in BusHandles :
                canif_is_valid_bus(reg_before, b) =>
                    ~canif_is_valid_bus(registry, b)
          /\ \A h \in DevHandles :
                canif_is_valid_device(reg_before, h) =>
                    ~canif_is_valid_device(registry, h)
          /\ dev_ops = <<>>

\* a clear of a registry that held a bus with two devices
C21_Witness ==
    /\ reg_call.op = "clear"
    /\ canif_is_valid_device(reg_before, <<1, 2>>)
    /\ canif_is_valid_bus(reg_before, 1)
    /\ ~canif_is_valid_device(registry, <<1, 2>>)

\* C22: close is idempotent: a deinit that directly follows a successful
\* deinit returns true and leaves the adapter (driver state, handle table,
\* live controllers) as the first deinit left it.
C22_CloseIdempotent ==
    [][(/\ last_call.op = "deinit"
        /\ last_call.ret
        /\ last_call'.op = "deinit"
        /\ (last_call' /= last_call \/ call_log' /= call_log))
       => /\ last_call'.ret
          /\ twai_state' = twai_state
          /\ g_alloc' = g_alloc
          /\ g_handles' = g_handles
          /\ g_count' = g_count
          /\ mcp_live' = mcp_live]_vars

\* the claim's frames: a standard id up to 0x7FF or an extended id up to
\* 0x1FFFFFFF, dlc 0..8
ClaimFrame(m) ==
    /\ m.dlc \in 0..8
    /\ IF m.extd THEN m.id <= 536870911 ELSE m.id <= 2047

\* C23: in the multi adapter from_frame(to_frame(m)) has the id, the extended
\* flag, the dlc and the first dlc data bytes of m, for every standard id up
\* to 0x7FF, every extended id up to 0x1FFFFFFF and every dlc in 0..8.
C23_FrameRoundTrip ==
    (frm_kind = "multi" /\ frm_pc = "round" /\ ClaimFrame(frm_in)) =>
        /\ frm_out.id = frm_in.id
        /\ ~frm_out.id_b31
        /\ frm_out.extd = frm_in.extd
        /\ frm_out.dlc = frm_in.dlc
        /\ Prefix(frm_out.data, frm_in.dlc) = Prefix(frm_in.data, frm_in.dlc)

\* the largest extended id with eight data bytes went through both
\* conversions, into a buffer that held other bytes
C23_Witness ==
    /\ frm_kind = "multi"
    /\ frm_pc = "round"
    /\ frm_in.extd
    /\ frm_in.id = 536870911
    /\ frm_in.dlc = 8
    /\ frm_out.data = SrcData
    /\ frm_out.extd

\* id, extended flag, dlc and data of a frame of the driver (twai_message_t)
\* or of the controller (CAN_FRAME: bit 31 of can_id is the extended flag,
\* the id is in its low 29 bits)
WireView(kind, w) ==
    IF kind = "twai"
      THEN [id |-> w.id, extd |-> w.extd, dlc |-> w.dlc, data |-> w.data]
      ELSE [id |-> w.can_id.low % 536870912, extd |-> w.can_id.b31,
            dlc |-> w.can_dlc, data |-> w.data]

\* C24: on the TWAI and MCP2515-single backends the frame built by send has
\* the id, extended flag, dlc and first dlc data bytes of the message, and
\* the message filled by receive has those of the received frame.
C24_WireConversionPreserves ==
    /\ (frm_kind \in {"twai", "single"} /\ frm_pc = "built"
                                          /\ ClaimFrame(frm_in)) =>
          LET w == WireView(frm_kind, frm_wire) IN
          /\ w.id = frm_in.id
          /\ w.extd = frm_in.extd
          /\ w.dlc = frm_in.dlc
          /\ Prefix(w.data, w.dlc) = Prefix(frm_in.data, frm_in.dlc)
    /\ (frm_kind \in {"twai", "single"} /\ frm_pc = "filled") =>
          LET w == WireView(frm_kind, frm_wire) IN
          /\ frm_out.id = w.id
          /\ ~frm_out.id_b31
          /\ frm_out.extd = w.extd
          /\ frm_out.dlc = w.dlc
          /\ Prefix(frm_out.data, w.dlc) = Prefix(w.data, w.dlc)

\* C25: when mcp2515_single_receive finds the error condition set it clears
\* the overrun flags if an overrun flag is set and the error interrupt flag
\* otherwise, resets interrupt_pending, reads no frame and returns false;
\* nothing else tells the caller about the error (its buffer, the queue and
\* the drop record are untouched).
C25_ReceiveError ==
    [][(rx_pc = "recv_errclr" /\ rx_pc' /= "recv_errclr") =>
        /\ rx_pc' = "loop_exit"
        /\ spi_log' = spi_log \o <<"getErrorFlags",
                                    IF "RXOVR" \in eflg THEN "clearRXnOVR"
                                    ELSE "clearERRIF">>
        /\ "RXOVR" \notin eflg'
        /\ ~errif'
        /\ ~interrupt_pending'
        /\ "readMessage" \notin Range(spi_log')
        /\ read_log' = read_log
        /\ msg' = msg
        /\ rx_queue' = rx_queue
        /\ offered' = offered
        /\ drop_events' = drop_events]_vars

\* a receive call that found an overrun, cleared it and returned false
C25_Witness ==
    /\ rx_pc = "loop_exit"
    /\ Len(spi_log) >= 3
    /\ spi_log[Len(spi_log)] = "clearRXnOVR"
    /\ spi_log[Len(spi_log) - 2] = "checkError"
    /\ ~interrupt_pending

\* C26: after an open that failed because the mode-switch poll was exhausted
\* the caller can retry: the next mcp2515_single_init with a valid
\* configuration is not refused on account of the failed attempt (it gets
\* past spi_bus_initialize and returns true once the controller reports the
\* requested mode).
C26_RetryOpen ==
    (/\ init_pc = "idle"
     /\ retry_of = "mode_switch"
     /\ ~init_cfg.null
     /\ init_cfg.device_count >= 1
     /\ init_ret = "false")
    => init_fail /= "spi_bus"

\* frames of one device in a sequence of frames, in order
OfDevice(frames, d) == SelectSeq(frames, LAMBDA f : f[1] = d)

\* C27: each pass of the polling loop polls every device of the default bus
\* exactly once, in ascending device index, and takes at most one frame per
\* device; frames of one device are delivered in their order of arrival,
\* frames of different devices in the order of the device index within a
\* pass.
C27_RoundRobin ==
    /\ \A k \in 1..Len(poll_log) :
          /\ poll_log[k][1] = k - 1
          /\ poll_log[k][2] <= 1
    /\ Len(poll_log) <= poll_n
    /\ poll_pc = "sleep" => Len(poll_log) = poll_n
    /\ \A d \in 0..(poll_n - 1) :
          \A k \in 1..Len(OfDevice(poll_delivered, d)) :
             k > 1 => OfDevice(poll_delivered, d)[k - 1][2]
                        < OfDevice(poll_delivered, d)[k][2]

\* a pass over two devices that took a frame from each: the frame of
\* device 0 is delivered first although it arrived later
C27_Witness ==
    /\ poll_pc = "sleep"
    /\ poll_n = 2
    /\ poll_log = << <<0, 1>>, <<1, 1>> >>
    /\ Len(poll_delivered) >= 2
    /\ LET n == Len(poll_delivered) IN
        /\ poll_delivered[n - 1][1] = 0
        /\ poll_delivered[n][1] = 1
        /\ poll_delivered[n][2] < poll_delivered[n - 1][2]

\* frame number s is among the frames of a sequence
HasSeq(frames, s) == \E i \in 1..Len(frames) : frames[i].seq = s

\* C28: with the consumer task scheduled fairly, every frame the producer
\* has enqueued is eventually dequeued and processed; the consumer processes
\* only frames that were enqueued, in the order they were enqueued.
C28_EnqueuedIsProcessed ==
    /\ \A s \in 1..MaxFrames :
          HasSeq(rx_queue, s) ~> HasSeq(processed, s)
    /\ [](/\ IsSubseq(processed, offered)
          /\ Len(processed) + Len(rx_queue) + rejected = Len(offered))

\* two frames have been processed while a third waits in the queue
C28_Witness ==
    /\ Len(processed) >= 2
    /\ rx_queue /= <<>>

\* C29: the adapter initialises the SPI bus at open and frees it at close
\* only when manage_bus_lifetime of the bus configuration is true: with the
\* flag false, mcp2515_single_init does not call spi_bus_initialize and
\* mcp2515_single_deinit does not call spi_bus_free.
C29_BusLifetimeFlag ==
    /\ (~init_cfg.null /\ ~init_cfg.manage_bus_lifetime) =>
          \A i \in 1..Len(init_log) : init_log[i][1] /= "spi_bus_initialize"
    /\ (deinit_ret /= "none" /\ ~s_bundle.null
                             /\ ~s_bundle.manage_bus_lifetime) =>
          \A i \in 1..Len(deinit_log) : deinit_log[i][1] /= "spi_bus_free"

\* C30: an init call with a null configuration or an empty instance list
\* returns false at once: it makes no driver or library call and leaves the
\* adapter as it was (can_twai_init, mcp2515_multi_init).
C30_ConfigErrorRejected ==
    (last_call.op = "init" /\ last_call.arg \in {"null", "empty"}) =>
        /\ ~last_call.ret
        /\ last_call.err = "none"
        /\ call_log = <<>>
        /\ last_call.post = last_call.pre

\* =====================================================================
\* Properties of the dispatcher (SpecDispatch)
\* =====================================================================

C32_BusConfigPassedThrough ==
    spi_init_args.called =>
        /\ spi_init_args.host = bus_cfg.params.host
        /\ spi_init_args.bus_cfg.miso_io_num = bus_cfg.wiring.miso_io_num
        /\ spi_init_args.bus_cfg.mosi_io_num = bus_cfg.wiring.mosi_io_num
        /\ spi_init_args.bus_cfg.sclk_io_num = bus_cfg.wiring.sclk_io_num
        /\ spi_init_args.bus_cfg.quadwp_io_num = bus_cfg.wiring.quadwp_io_num
        /\ spi_init_args.bus_cfg.quadhd_io_num = bus_cfg.wiring.quadhd_io_num
        /\ spi_init_args.bus_cfg.max_transfer_sz = bus_cfg.params.max_transfer_sz
        /\ spi_init_args.bus_cfg.flags = bus_cfg.params.flags
        /\ spi_init_args.dma_chan = bus_cfg.params.dma_chan

\* =====================================================================
\* Ownership of an open backend
\* =====================================================================

\* C33: mcp2515_single_init called while the adapter is initialised (the
\* last init returned true and no deinit followed) does not go on to
\* success and leaves the stored bundle pointer as it was.
C33_SecondInitChangesNothing ==
    [][(/\ init_pc = "idle" /\ init_ret = "true" /\ deinit_ret = "none"
        /\ init_ret' /= "true")
       => (/\ s_bundle' = s_bundle
           /\ init_pc' = "idle" => init_ret' = "false")]_vars

\* handles the last API call created with MCP2515_CreateOnBus
CreatedByCall ==
    {call_log[i][2] : i \in {j \in 1..Len(call_log) :
                               call_log[j][1] = "MCP2515_CreateOnBus"}}

\* C34: when mcp2515_multi_init fails at an instance, every handle the call
\* created has been destroyed when it returns, the handle table is released
\* and the instance count is 0.
C34_FailedInitCleansUp ==
    (/\ last_call.op = "init"
     /\ last_call.err \in {"create", "bitrate", "normal"}) =>
        /\ ~last_call.ret
        /\ CreatedByCall \cap mcp_live = {}
        /\ ~g_alloc
        /\ g_count = 0

\* handles the last API call passed to the send and receive functions of the
\* controller library
PassedByCall ==
    {call_log[i][2] : i \in {j \in 1..Len(call_log) :
        call_log[j][1] \in {"MCP2515_SendMessageAfterCtrlCheck",
                            "MCP2515_ReadMessageAfterStatCheck"}}}

\* C35: send and receive of the multi adapter pass to the controller
\* library only handles the last successful init created and nobody has
\* destroyed; no handle is destroyed twice; while the adapter is not
\* initialised, send and receive return false without a library call.
C35_OnlyLiveOwnedHandles ==
    /\ PassedByCall \subseteq (init_owned \cap mcp_live)
    /\ PassedByCall \cap Range(destroy_log) = {}
    /\ NoDup(destroy_log)
    /\ (last_call.op \in {"send", "receive"} /\ ~g_alloc) =>
           (~last_call.ret /\ call_log = <<>>)

\* after an init, a deinit and a second init, receive has polled a
\* controller of the second init
C35_Witness ==
    /\ destroy_log /= <<>>
    /\ last_call.op = "receive"
    /\ PassedByCall /= {}
    /\ PassedByCall \subseteq init_owned

\* =====================================================================
\* Effect of a failed receive on the buffer of the caller
\* =====================================================================

\* C36: a receive call that returns false leaves the buffer of the caller as
\* it was.  For can_twai_receive and mcp2515_multi_receive the call is one
\* step; in mcp2515_single_receive the only step that writes the buffer is
\* the one that goes on to the drain loop and to return true.
C36_FailedReceiveKeepsBuffer ==
    [][/\ (/\ backend \in {"TWAI", "MCP2515_MULTI"}
           /\ last_call'.op = "receive"
           /\ ~last_call'.ret) => in_msg' = in_msg
       /\ (backend = "MCP2515_SINGLE" /\ msg' /= msg) =>
              rx_pc' = "recv_drain"]_vars

\* =====================================================================
\* The data-ready flag and frames pending in the controller
\* =====================================================================

C38_FailedStartKeepsConfig ==
    [][/\ (last_call'.op = "init" /\ last_call'.err = "ESP_FAIL") =>
              /\ ~last_call'.ret
              /\ call_log' = << <<"twai_driver_install", 0>>,
                                <<"twai_start", 0>>,
                                <<"twai_driver_uninstall", 0>> >>
              /\ twai_state' = "UNINSTALLED"
              /\ twai_config' = twai_config
       /\ (twai_config' /= twai_config) =>
              /\ last_call'.op = "init"
              /\ last_call'.ret \/ last_call'.err = "panic"]_vars

\* twai_start has failed in an init that followed a successful init and a
\* deinit, so a configuration was already stored
C38_Witness ==
    /\ last_call.op = "init"
    /\ last_call.err = "ESP_FAIL"
    /\ twai_config /= ZeroTimeouts

\* =====================================================================
\* Properties of the receive statistics (SpecStats)
\* =====================================================================

\* C39: the frame count printed for a window that an END_TAG frame ends
\* equals the number of TEST_MSG_ID frames processed since the previous
\* reset (since start for the first window), and after a test frame the
\* expected heartbeat is the received heartbeat + 1 modulo 256.
C39_WindowCountAndHeartbeat ==
    /\ stat_report.printed => stat_report.frames = stat_report.seen
    /\ stat_last.id = TEST_MSG_ID =>
           expected_heartbeat = (stat_last.heartbeat + 1) % 256
====
